---- MODULE Spec2Model ----
(***************************************************************************)
(* HTML-Gunship: the game clock, the sprite classes and the game engine.   *)
(*                                                                         *)
(* Positions and sizes are fixed-point numbers: one unit is 1/Scale of a   *)
(* pixel, so that the enemy speed of -1.66 pixels per frame is the integer *)
(* -166.  Times are milliseconds.  JavaScript arrays are sequences; an       *)
(* array index ix of the source is the sequence index ix + 1.              *)
(***************************************************************************)
EXTENDS Integers, Sequences, FiniteSets, TLC

\* ------------------------------------------------------------------ bounds
\* Clock callbacks (clockTick invocations) explored in one run.
MaxTicks == 4
\* Score listeners the page registers.
MaxScoreListeners == 2
\* Wall-clock value of Date.now() at the time origin of the frame timestamps.
DateOrigin == 1000000

\* Milliseconds that may pass between two clock callbacks (the first one is
\* measured from the time origin): less than a frame, one frame, and a long
\* stall that lets the enemy column cross the canvas.
DtChoices == {10, 17, 4690}
\* Values of Math.random()*canvasHeight drawn for a new enemy, in pixels.
EnemyTops == {100, 210}
\* The draws of n successive Math.random() calls: all equal, or alternating.
RandomDraws(n) ==
  {[i \in 1..n |-> t] : t \in EnemyTops}
  \cup {[i \in 1..n |-> IF i % 2 = 1 THEN 210 ELSE 190]}
\* Key codes delivered by the keydown/keyup events during a game (65 is not a
\* game key).
KeyCodes == {32, 39, 65}

\* ------------------------------------------------------- program constants
Scale == 100
canvasWidth == 512
canvasHeight == 480
MOVE_PIXELS == 3
BULLET_SPEED == 5
KEY_REPEAT_DELAY == 250
ENEMY_SPEED == -166
MS_PER_INCREMENT == 15000
MAX_ENEMIES == 100
\* initialAdditionRate and ENEMY_ADDITION_INCREMENT (0.05), in percent
initialAdditionRate == 5
ENEMY_ADDITION_INCREMENT == 5
KILL_SCORE == 10

Min(a, b) == IF a <= b THEN a ELSE b
Max(a, b) == IF a >= b THEN a ELSE b

\* ------------------------------------------------------------------ Sprite
\* A divisor that animates a sprite of frame rate 0 at one frame per tick.
frameDivisorEveryTick(fr) == IF fr > 0 THEN 60 \div fr ELSE 1

\* frameDivisor = frameRate > 0 ? 60/frameRate : 0
frameDivisor(fr) == IF fr > 0 THEN 60 \div fr ELSE 0

\* new Sprite(spriteMap, top, left, width, height, fr, frames, frameDir, doOnce)
\* The atlas position and the frame direction only select the pixels drawn.
\* id is the object identity; auto, pxPerFrame and moveDirection are the
\* fields AutoSprite adds.
Sprite(id, width, height, fr, frames, doOnce) ==
  [id |-> id, w |-> width * Scale, h |-> height * Scale, fr |-> fr,
   frameSet |-> frames, once |-> doOnce,
   frameIdx |-> 0, clockFrame |-> 0, top |-> 0, left |-> 0, done |-> FALSE,
   auto |-> FALSE, pxPerFrame |-> 0, moveDirection |-> "horizontal",
   type |-> "NONE"]

\* new AutoSprite(pixelsPerFrame, spriteDirection, spriteMap, left, top, w, h,
\*                fr, frames, frameDir, doOnce); pixelsPerFrame is fixed-point.
AutoSprite(id, pixelsPerFrame, spriteDirection, w, h, fr, frames, doOnce) ==
  [Sprite(id, w, h, fr, frames, doOnce) EXCEPT
     !.auto = TRUE,
     !.pxPerFrame = IF pixelsPerFrame = 0 THEN 3 * Scale ELSE pixelsPerFrame,
     !.moveDirection = spriteDirection]

setPosition(s, top, left) == [s EXCEPT !.top = top, !.left = left]

\* Sprite.setDone as the README adds it to the class
setDone(s, status) == [s EXCEPT !.done = status]

isDone(s) == s.done

\* An update that counts the frames of the current call only.
SpriteUpdatePerCall(s, framesElapsed) ==
  IF frameDivisor(s.fr) > 0
  THEN LET cf == s.clockFrame + framesElapsed
           moveFrames == framesElapsed \div frameDivisor(s.fr)
       IN [s EXCEPT !.clockFrame = cf,
                    !.frameIdx = moveFrames % Len(s.frameSet),
                    !.done = s.once /\ moveFrames > Len(s.frameSet)]
  ELSE s

\* Sprite.update
SpriteUpdate(s, framesElapsed) ==
  IF frameDivisor(s.fr) > 0
  THEN LET cf == s.clockFrame + framesElapsed
           moveFrames == cf \div frameDivisor(s.fr)
       IN [s EXCEPT !.clockFrame = cf,
                    !.frameIdx = moveFrames % Len(s.frameSet),
                    !.done = s.once /\ moveFrames > Len(s.frameSet)]
  ELSE s

\* An update that leaves the sprite where it is.
AutoSpriteUpdateStill(s, framesElapsed) == SpriteUpdate(s, framesElapsed)

\* AutoSprite.update: translate, then delegate to Sprite.update
AutoSpriteUpdate(s, framesElapsed) ==
  LET moved == IF s.moveDirection = "horizontal"
               THEN setPosition(s, s.top, s.left + s.pxPerFrame * framesElapsed)
               ELSE setPosition(s, s.top + s.pxPerFrame * framesElapsed, s.left)
  IN SpriteUpdate(moved, framesElapsed)

update(s, framesElapsed) ==
  IF s.auto THEN AutoSpriteUpdate(s, framesElapsed)
  ELSE SpriteUpdate(s, framesElapsed)

\* An off-canvas test that counts a sprite touching an edge as outside.
offCanvasTouching(s) ==
  \/ s.left <= -s.w
  \/ s.left >= canvasWidth * Scale
  \/ s.top <= -s.h
  \/ s.top >= canvasHeight * Scale

\* The off-canvas test at the head of Sprite.render
offCanvas(s) ==
  \/ s.left < -s.w
  \/ s.left > canvasWidth * Scale
  \/ s.top < -s.h
  \/ s.top > canvasHeight * Scale

\* Sprite.render: done |= off-canvas; the frame is drawn when not done.
render(s) == [s EXCEPT !.done = s.done \/ offCanvas(s)]

\* Sprite.render: whether the call reaches drawImage
renderDraws(s) == ~render(s).done

\* ------------------------------------------------------------- GameEngine
Keys == {"SPACE", "LEFT", "UP", "RIGHT", "DOWN"}

\* The switch of setKeyStatus: the key name of a key code, "" for any other.
keyName(keyCode) ==
  CASE keyCode = 32 -> "SPACE"
    [] keyCode = 37 -> "LEFT"
    [] keyCode = 38 -> "UP"
    [] keyCode = 39 -> "RIGHT"
    [] keyCode = 40 -> "DOWN"
    [] OTHER -> ""

\* setKeyStatus(keyEvent, status); an entry never written reads as FALSE.
setKeyStatus(map, keyCode, status) ==
  IF keyName(keyCode) \in Keys
  THEN [map EXCEPT ![keyName(keyCode)] = status]
  ELSE map

\* createEnemySprite; rnd is Math.random()*canvasHeight in pixels
createEnemySprite(id, rnd) ==
  LET s == [AutoSprite(id, ENEMY_SPEED, "horizontal", 80, 39, 10,
                       <<0, 1, 2, 3, 2, 1>>, FALSE) EXCEPT !.type = "ENEMY"]
      left == (canvasWidth - 5) * Scale
      top == Min(rnd * Scale, canvasHeight * Scale - s.h)
  IN setPosition(s, top, left)

\* createPlayerSprite
createPlayerSprite(id) ==
  LET s == [Sprite(id, 39, 25, 10, <<0, 1>>, FALSE) EXCEPT !.type = "PLAYER"]
      top == ((canvasHeight - 39) \div 2) * Scale
  IN setPosition(s, top, 0)

playerWidth == createPlayerSprite(0).w
playerHeight == createPlayerSprite(0).h

\* A volley without the bullet that moves down.
createBulletSpritesPair(player, id) ==
  LET forward == [AutoSprite(id, BULLET_SPEED * Scale, "horizontal", 17, 7, 0,
                             <<0>>, FALSE) EXCEPT !.type = "BULLET"]
      up == [AutoSprite(id + 1, -(BULLET_SPEED * Scale), "vertical", 9, 5, 0,
                        <<0>>, FALSE) EXCEPT !.type = "BULLET"]
  IN << setPosition(forward,
                    player.top + (player.h \div 2) - (forward.h \div 2),
                    player.left + player.w),
        setPosition(up, player.top,
                    player.left + (player.w \div 2) - (up.w \div 2)) >>

\* createBulletSprites: [forward, up, down], ids id, id+1, id+2
createBulletSprites(player, id) ==
  LET forward == [AutoSprite(id, BULLET_SPEED * Scale, "horizontal", 17, 7, 0,
                             <<0>>, FALSE) EXCEPT !.type = "BULLET"]
      down == [AutoSprite(id + 2, BULLET_SPEED * Scale, "vertical", 9, 5, 0,
                          <<0>>, FALSE) EXCEPT !.type = "BULLET"]
      up == [AutoSprite(id + 1, -(BULLET_SPEED * Scale), "vertical", 9, 5, 0,
                        <<0>>, FALSE) EXCEPT !.type = "BULLET"]
  IN << setPosition(forward,
                    player.top + (player.h \div 2) - (forward.h \div 2),
                    player.left + player.w),
        setPosition(up, player.top,
                    player.left + (player.w \div 2) - (up.w \div 2)),
        setPosition(down, player.top + player.h,
                    player.left + (player.w \div 2) - (down.w \div 2)) >>

\* createExplosionAt(top, left)
createExplosionAt(id, top, left) ==
  setPosition(Sprite(id, 39, 39, 4, <<0, 1, 2, 3, 4, 5, 6, 7, 8, 9, 10, 11>>,
                     TRUE), top, left)

\* A target that grows with the level without the cap at 1.
currentMaxEnemiesUncapped(elapsedTimeMillis) ==
  (MAX_ENEMIES * (initialAdditionRate
                  + ENEMY_ADDITION_INCREMENT
                    * (elapsedTimeMillis \div MS_PER_INCREMENT))) \div 100

\* addEnemies: the number of enemies to create at wall-clock time dateNow
currentMaxEnemies(elapsedTimeMillis) ==
  LET currentLevel == Min(initialAdditionRate
                          + ENEMY_ADDITION_INCREMENT
                            * (elapsedTimeMillis \div MS_PER_INCREMENT), 100)
  IN (MAX_ENEMIES * currentLevel) \div 100

\* A count that ignores the enemies already in the array.
numToCreateFill(nEnemies, elapsedTimeMillis) ==
  currentMaxEnemies(elapsedTimeMillis)

numToCreate(nEnemies, elapsedTimeMillis) ==
  Max(currentMaxEnemies(elapsedTimeMillis) - nEnemies, 0)

\* A creation loop that runs once more than numToCreate (i <= numToCreate).
addEnemiesOneMore(id, rnds) ==
  [i \in 1..(Len(rnds) + 1) |->
     createEnemySprite(id + i - 1, IF i <= Len(rnds) THEN rnds[i] ELSE 0)]

\* the array addEnemies returns: one createEnemySprite() per random draw
addEnemies(id, rnds) ==
  [i \in 1..Len(rnds) |-> createEnemySprite(id + i - 1, rnds[i])]

\* A test of the top corners of s1 only.
overlapTopCorners(s1, s2) ==
  LET t1 == s1.top  l1 == s1.left  r1 == s1.left + s1.w
      t2 == s2.top  l2 == s2.left  b2 == s2.top + s2.h  r2 == s2.left + s2.w
  IN /\ t1 >= t2 /\ t1 <= b2
     /\ \/ (l1 >= l2 /\ l1 <= r2)
        \/ (r1 >= l2 /\ r1 <= r2)

\* overlap(s1, s2): the corners of s1 against the four sides of s2
overlap(s1, s2) ==
  LET t1 == s1.top  l1 == s1.left  b1 == s1.top + s1.h  r1 == s1.left + s1.w
      t2 == s2.top  l2 == s2.left  b2 == s2.top + s2.h  r2 == s2.left + s2.w
  IN \/ /\ t1 >= t2 /\ t1 <= b2
        /\ \/ (l1 >= l2 /\ l1 <= r2)
           \/ (r1 >= l2 /\ r1 <= r2)
     \/ /\ b1 >= t2 /\ b1 <= b2
        /\ \/ (l1 >= l2 /\ l1 <= r2)
           \/ (r1 >= l2 /\ r1 <= r2)

\* A removal that takes the last element whatever the index.
spliceLast(spriteArray, ix) == SubSeq(spriteArray, 1, Len(spriteArray) - 1)

\* spriteArray.splice(ix, 1), ix an index of the source (from 0)
splice(spriteArray, ix) ==
  SubSeq(spriteArray, 1, ix) \o SubSeq(spriteArray, ix + 2, Len(spriteArray))

\* A removal that leaves the loop index where it was.
spliceIndexKept(ix) == ix

\* the value of ix after splice(ix--, 1)
spliceIndex(ix) == ix - 1

\* One iteration of the for loop of renderSprites at index st.ix: update and
\* render the sprite, splice it out when it is done, ix++.  st.log lists, in
\* call order, the sprite updated and rendered and whether render drew it.
renderBody(st, framesElapsed) ==
  LET s == render(update(st.arr[st.ix + 1], framesElapsed))
      log2 == Append(st.log, [id |-> s.id, drawn |-> ~s.done, type |-> s.type])
  IN IF isDone(s)
     THEN [arr |-> splice(st.arr, st.ix), ix |-> spliceIndex(st.ix) + 1,
           log |-> log2]
     ELSE [arr |-> [st.arr EXCEPT ![st.ix + 1] = s], ix |-> st.ix + 1,
           log |-> log2]

\* The for loop of renderSprites from index st.ix on
RECURSIVE renderLoop(_, _)
renderLoop(st, framesElapsed) ==
  IF st.ix < Len(st.arr)
  THEN CHOOSE r \in {renderLoop(n, framesElapsed) :
                        n \in {renderBody(st, framesElapsed)}} : TRUE
  ELSE st

\* renderSprites(spriteArray, framesElapsed)
renderSprites(spriteArray, framesElapsed) ==
  renderLoop([arr |-> spriteArray, ix |-> 0, log |-> <<>>], framesElapsed)

\* A gate that lets a key through only after more than delay milliseconds.
checkKeyHitDelayStrict(hitTimes, key, delay, curTime) ==
  LET lastHit == hitTimes[key]
  IN IF curTime - lastHit > delay
     THEN [ok |-> TRUE, keyHitTime |-> [hitTimes EXCEPT ![key] = curTime]]
     ELSE [ok |-> FALSE, keyHitTime |-> hitTimes]

\* A gate that stores the time of every call.
checkKeyHitDelayStamping(hitTimes, key, delay, curTime) ==
  LET lastHit == hitTimes[key]
  IN [ok |-> curTime - lastHit >= delay,
      keyHitTime |-> [hitTimes EXCEPT ![key] = curTime]]

\* A gate that never stores the time of a hit.
checkKeyHitDelayUnstored(hitTimes, key, delay, curTime) ==
  LET lastHit == hitTimes[key]
  IN [ok |-> curTime - lastHit >= delay, keyHitTime |-> hitTimes]

\* checkKeyHitDelay(keyName, delay) at wall-clock time curTime
checkKeyHitDelay(hitTimes, key, delay, curTime) ==
  LET lastHit == hitTimes[key]
  IN IF curTime - lastHit >= delay
     THEN [ok |-> TRUE, keyHitTime |-> [hitTimes EXCEPT ![key] = curTime]]
     ELSE [ok |-> FALSE, keyHitTime |-> hitTimes]

\* A move towards the top or the left edge that is not clamped.
towardsZeroUnclamped(pos, step) == pos - step

\* Math.max(0, pos - MOVE_PIXELS*framesElapsed)
towardsZero(pos, step) == Max(0, pos - step)

\* A move towards the far edge that is not clamped.
towardsLimitUnclamped(pos, step, limit) == pos + step

\* Math.min(limit, pos + MOVE_PIXELS*framesElapsed)
towardsLimit(pos, step, limit) == Min(limit, pos + step)

\* checkPlayerActions(framesElapsed) at wall-clock time curTime; id is the
\* identity given to the first sprite created.
checkPlayerActions(player, keys, hitTimes, bulletArray, framesElapsed, curTime, id) ==
  LET currentPlayerPos == [top |-> player.top, left |-> player.left]
      step == MOVE_PIXELS * Scale * framesElapsed
      p1 == IF keys["LEFT"]
            THEN setPosition(player, currentPlayerPos.top,
                             towardsZero(currentPlayerPos.left, step))
            ELSE player
      p2 == IF keys["RIGHT"]
            THEN setPosition(p1, currentPlayerPos.top,
                             towardsLimit(currentPlayerPos.left, step,
                                          canvasWidth * Scale - playerWidth))
            ELSE p1
      p3 == IF keys["UP"]
            THEN setPosition(p2, towardsZero(currentPlayerPos.top, step),
                             currentPlayerPos.left)
            ELSE p2
      p4 == IF keys["DOWN"]
            THEN setPosition(p3, towardsLimit(currentPlayerPos.top, step,
                                              canvasHeight * Scale - playerHeight),
                             currentPlayerPos.left)
            ELSE p3
      gate == IF keys["SPACE"]
              THEN checkKeyHitDelay(hitTimes, "SPACE", KEY_REPEAT_DELAY, curTime)
              ELSE [ok |-> FALSE, keyHitTime |-> hitTimes]
  IN [player |-> p4,
      bullets |-> IF gate.ok
                  THEN bulletArray \o createBulletSprites(p4, id)
                  ELSE bulletArray,
      keyHitTime |-> gate.keyHitTime,
      nextId |-> IF gate.ok THEN id + 3 ELSE id,
      fired |-> gate.ok]

\* notifyScoreUpdate(score): the listener calls it makes, in order
notifyScoreUpdate(listeners, score) ==
  [i \in 1..Len(listeners) |-> [listener |-> listeners[i], score |-> score]]

\* notifyPlayerDestroyedListeners(): the listener calls it makes, in order
notifyPlayerDestroyedListeners(listeners) == listeners

\* A collision body that puts the explosion where the enemy is.
bulletBodyAtEnemy(st, e, b) ==
  LET bullet == st.bullets[b]
      nme == st.enemies[e]
  IN IF overlap(bullet, nme)
     THEN [st EXCEPT
             !.bullets[b] = setDone(bullet, TRUE),
             !.enemies[e] = setDone(nme, TRUE),
             !.explosions = Append(@, createExplosionAt(st.nextId, nme.top,
                                                        nme.left)),
             !.nextId = @ + 1,
             !.scores = @ \o notifyScoreUpdate(st.scoreListeners, KILL_SCORE),
             !.hits = Append(@, [bullet |-> bullet.id, enemy |-> nme.id,
                                 bulletDone |-> isDone(bullet),
                                 enemyDone |-> isDone(nme),
                                 boom |-> st.nextId])]
     ELSE st

\* The body of bullets.forEach for the enemy at index e and the bullet at
\* index b (sequence indices).  st carries the arrays, the player, the
\* listener calls made so far (scores, destroyed) and a record of each
\* overlap found (hits, playerHits).
bulletBody(st, e, b) ==
  LET bullet == st.bullets[b]
      nme == st.enemies[e]
  IN IF overlap(bullet, nme)
     THEN [st EXCEPT
             !.bullets[b] = setDone(bullet, TRUE),
             !.enemies[e] = setDone(nme, TRUE),
             !.explosions = Append(@, createExplosionAt(st.nextId, bullet.top,
                                                        bullet.left)),
             !.nextId = @ + 1,
             !.scores = @ \o notifyScoreUpdate(st.scoreListeners, KILL_SCORE),
             !.hits = Append(@, [bullet |-> bullet.id, enemy |-> nme.id,
                                 bulletDone |-> isDone(bullet),
                                 enemyDone |-> isDone(nme),
                                 boom |-> st.nextId])]
     ELSE st

RECURSIVE bulletsForEach(_, _, _)
bulletsForEach(st, e, b) ==
  IF b > Len(st.bullets) THEN st
  ELSE CHOOSE r \in {bulletsForEach(n, e, b + 1) :
                        n \in {bulletBody(st, e, b)}} : TRUE

\* The player test that ends the body of enemies.forEach
playerBody(st, e) ==
  LET nme == st.enemies[e]
  IN IF ~isDone(st.player) /\ overlap(st.player, nme)
     THEN [st EXCEPT
             !.player = setDone(@, TRUE),
             !.explosions = Append(@, createExplosionAt(st.nextId, st.player.top,
                                                        st.player.left)),
             !.nextId = @ + 1,
             !.destroyed = @ \o notifyPlayerDestroyedListeners(st.destroyedListeners),
             !.playerHits = Append(@, [enemy |-> nme.id,
                                       enemyDone |-> isDone(nme)])]
     ELSE st

RECURSIVE enemiesForEach(_, _)
enemiesForEach(st, e) ==
  IF e > Len(st.enemies) THEN st
  ELSE CHOOSE r \in {enemiesForEach(n, e + 1) :
                        n \in {playerBody(m, e) :
                                 m \in {bulletsForEach(st, e, 1)}}} : TRUE

\* The collision sweep that ends the game step
sweep(enemyArray, bulletArray, explosionArray, player, id, sListeners, dListeners) ==
  enemiesForEach([enemies |-> enemyArray, bullets |-> bulletArray,
                  explosions |-> explosionArray, player |-> player,
                  nextId |-> id, scoreListeners |-> sListeners,
                  destroyedListeners |-> dListeners,
                  scores |-> <<>>, destroyed |-> <<>>,
                  hits |-> <<>>, playerHits |-> <<>>], 1)

\* ------------------------------------------------------------------- state
VARIABLES
  pc,                       \* where the page's ready function is: "constructed",
                            \* "scoring", "listening", then "running" after init()
  now,                      \* milliseconds since the time origin
  nTicks,                   \* clockTick invocations so far
  lastTickTime,             \* GameClock
  currentFrameNo,           \* GameClock
  playerSprite, enemies, bullets, explosions,
  keyStatusMap, keyHitTime, gameStartTime,
  scoreEventListeners, playerDestroyedListeners,
  nextId,                   \* identity of the next sprite object created
  gameOverLog,              \* player-destroyed listener calls of the whole run
  everDestroyed,            \* the sweep has called playerSprite.setDone(true)
  obs,                      \* what the latest clockTick did
  spr, lastOp,              \* a sprite on its own and the calls made on it
  pool, poolObs,            \* an array of sprites and its latest renderSprites pass
  stepFunctions,            \* GameClock on its own: the registered step functions
  pendingCallbacks,         \* clockTick callbacks requested and not yet run
  clockLog,                 \* what each clockTick invocation did
  imageCache,               \* ImageCache: the image stored under each url
  readyFunctions,           \* ImageCache
  numImagesToLoad,          \* ImageCache
  numImagesLoaded,          \* ImageCache
  loading,                  \* Image objects whose onload has not fired yet
  readyLog                  \* what each round of ready function calls saw

vars == << pc, now, nTicks, lastTickTime, currentFrameNo, playerSprite, enemies,
           bullets, explosions, keyStatusMap, keyHitTime, gameStartTime,
           scoreEventListeners, playerDestroyedListeners, nextId, gameOverLog,
           everDestroyed, obs, spr, lastOp, pool, poolObs, stepFunctions,
           pendingCallbacks, clockLog, imageCache, readyFunctions,
           numImagesToLoad, numImagesLoaded, loading, readyLog >>

cacheVars == << imageCache, readyFunctions, numImagesToLoad, numImagesLoaded,
                loading, readyLog >>

clockVars == << stepFunctions, pendingCallbacks, clockLog >>

\* the variables the game does not use
benchVars == << spr, lastOp, pool, poolObs, clockVars, cacheVars >>

engineVars == << playerSprite, enemies, bullets, explosions, keyHitTime,
                 nextId, gameOverLog, everDestroyed >>

Ids(arr) == {arr[i].id : i \in 1..Len(arr)}

NoObs == [dispatched |-> FALSE]

\* Date.now()
DateNow(t) == DateOrigin + t

\* The urls handed to load
Urls == {"images/terrain.png", "images/sprites.png"}

\* new ImageCache(): nothing stored (0 stands for undefined), nothing requested
CacheIdle ==
  /\ imageCache = [url \in Urls |-> 0]
  /\ readyFunctions = <<>>
  /\ numImagesToLoad = 0
  /\ numImagesLoaded = 0
  /\ loading = {}
  /\ readyLog = <<>>

\* new GameClock(): no step function, nothing requested
ClockIdle ==
  /\ stepFunctions = <<>>
  /\ pendingCallbacks = 0
  /\ clockLog = <<>>

BenchIdle ==
  /\ spr = createPlayerSprite(0)
  /\ lastOp = <<>>
  /\ pool = <<>>
  /\ poolObs = [ran |-> FALSE]
  /\ ClockIdle
  /\ CacheIdle

\* The state after new GameEngine(gameCanvas, imageCache)
GameInit ==
  /\ pc = "constructed"
  /\ now = 0
  /\ nTicks = 0
  /\ lastTickTime = 0
  /\ currentFrameNo = 0
  /\ playerSprite = createPlayerSprite(0)
  /\ enemies = <<>>
  /\ bullets = <<>>
  /\ explosions = <<>>
  /\ keyStatusMap = [k \in Keys |-> FALSE]
  /\ keyHitTime = [k \in Keys |-> 0]
  /\ gameStartTime = 0
  /\ scoreEventListeners = <<>>
  /\ playerDestroyedListeners = <<>>
  /\ nextId = 1
  /\ gameOverLog = <<>>
  /\ everDestroyed = FALSE
  /\ obs = NoObs
  /\ ClockIdle
  /\ CacheIdle

Init == GameInit /\ BenchIdle

\* gameEngine.addScoreListener(listener), called first by the ready function;
\* the listeners are numbered in the order of their registration.
AddScoreListener ==
  /\ pc \in {"constructed", "scoring"}
  /\ Len(scoreEventListeners) < MaxScoreListeners
  /\ pc' = "scoring"
  /\ scoreEventListeners' = Append(scoreEventListeners,
                                   Len(scoreEventListeners) + 1)
  /\ UNCHANGED << now, nTicks, lastTickTime, currentFrameNo, keyStatusMap,
                  gameStartTime, playerDestroyedListeners, obs >>
  /\ UNCHANGED engineVars
  /\ UNCHANGED benchVars

\* gameEngine.addPlayerDestroyedListener(listener), called next
AddPlayerDestroyedListener ==
  /\ pc = "scoring"
  /\ pc' = "listening"
  /\ playerDestroyedListeners' = Append(playerDestroyedListeners, "gameOver")
  /\ UNCHANGED << now, nTicks, lastTickTime, currentFrameNo, keyStatusMap,
                  gameStartTime, scoreEventListeners, obs >>
  /\ UNCHANGED engineVars
  /\ UNCHANGED benchVars

\* init(): record the start time, install the key handlers, push the first
\* enemy, register the game step and start the clock
InitEngine(rnd) ==
  /\ pc = "listening"
  /\ pc' = "running"
  /\ gameStartTime' = DateNow(now)
  /\ enemies' = Append(enemies, createEnemySprite(nextId, rnd))
  /\ nextId' = nextId + 1
  /\ UNCHANGED << now, nTicks, lastTickTime, currentFrameNo, playerSprite,
                  bullets, explosions, keyStatusMap, keyHitTime,
                  scoreEventListeners, playerDestroyedListeners, gameOverLog,
                  everDestroyed, obs >>
  /\ UNCHANGED benchVars

\* the keydown handler
KeyDown(keyCode) ==
  /\ pc = "running"
  /\ keyStatusMap' = setKeyStatus(keyStatusMap, keyCode, TRUE)
  /\ UNCHANGED << pc, now, nTicks, lastTickTime, currentFrameNo, gameStartTime,
                  scoreEventListeners, playerDestroyedListeners, obs >>
  /\ UNCHANGED engineVars
  /\ UNCHANGED benchVars

\* the keyup handler
KeyUp(keyCode) ==
  /\ pc = "running"
  /\ keyStatusMap' = setKeyStatus(keyStatusMap, keyCode, FALSE)
  /\ UNCHANGED << pc, now, nTicks, lastTickTime, currentFrameNo, gameStartTime,
                  scoreEventListeners, playerDestroyedListeners, obs >>
  /\ UNCHANGED engineVars
  /\ UNCHANGED benchVars

\* checkPlayerActions behind its guard: what the player's part of the step
\* leaves when the player is done
playerActions(framesElapsed, curTime, id) ==
  IF ~isDone(playerSprite)
  THEN checkPlayerActions(playerSprite, keyStatusMap, keyHitTime, bullets,
                          framesElapsed, curTime, id)
  ELSE [player |-> playerSprite, bullets |-> bullets,
        keyHitTime |-> keyHitTime, nextId |-> id, fired |-> FALSE]

\* A pass that is left out.
renderSkipped(spriteArray, framesElapsed) ==
  [arr |-> spriteArray, ix |-> 0, log |-> <<>>]

\* renderSprites behind the test of the array's length
renderIfAny(spriteArray, framesElapsed) ==
  IF Len(spriteArray) > 0
  THEN renderSprites(spriteArray, framesElapsed)
  ELSE [arr |-> spriteArray, ix |-> 0, log |-> <<>>]

\* The step function init() registers with the clock, run with framesElapsed
\* at wall-clock time curTime; rnds are the random draws of addEnemies.
gameStep(framesElapsed, curTime, rnds) ==
  \E act \in {playerActions(framesElapsed, curTime, nextId + Len(rnds))} :
  \E pl \in {render(update(act.player, framesElapsed))} :
  \E ePass \in {renderSprites(enemies \o addEnemies(nextId, rnds),
                               framesElapsed)} :
  \E bPass \in {renderIfAny(act.bullets, framesElapsed)} :
  \E xPass \in {renderIfAny(explosions, framesElapsed)} :
  \E sw \in {sweep(ePass.arr, bPass.arr, xPass.arr, pl, act.nextId,
                   scoreEventListeners, playerDestroyedListeners)} :
  \E passLog \in {ePass.log \o bPass.log \o xPass.log} :
    /\ playerSprite' = sw.player
    /\ enemies' = sw.enemies
    /\ bullets' = sw.bullets
    /\ explosions' = sw.explosions
    /\ keyHitTime' = act.keyHitTime
    /\ nextId' = sw.nextId
    /\ gameOverLog' = gameOverLog \o sw.destroyed
    /\ everDestroyed' = (everDestroyed \/ sw.playerHits # <<>>)
    /\ obs' = [dispatched |-> TRUE,
               framesElapsed |-> framesElapsed,
               fired |-> act.fired,
               keys |-> keyStatusMap,
               curTime |-> curTime,
               hitTimeBefore |-> keyHitTime,
               playerStart |-> playerSprite,
               playerActed |-> act.player,
               bulletsKept |-> (SubSeq(act.bullets, 1, Len(bullets)) = bullets),
               spawned |-> SubSeq(act.bullets, Len(bullets) + 1,
                                  Len(act.bullets)),
               destroyedBefore |-> everDestroyed,
               before |-> [enemies |-> enemies, bullets |-> bullets,
                           explosions |-> explosions, nextId |-> nextId],
               nCreated |-> Len(rnds),
               passTypes |-> [i \in 1..Len(passLog) |-> passLog[i].type],
               markedDone |-> {enemies[i].id : i \in {j \in 1..Len(enemies) :
                                                        isDone(enemies[j])}}
                              \cup {bullets[i].id : i \in {j \in 1..Len(bullets) :
                                                             isDone(bullets[j])}},
               drawn |-> {passLog[i].id : i \in {j \in 1..Len(passLog) :
                                                   passLog[j].drawn}},
               nExplosions |-> Len(xPass.arr),
               hits |-> sw.hits,
               playerHits |-> sw.playerHits,
               scores |-> sw.scores,
               destroyed |-> sw.destroyed]

\* GameClock.clockTick(timestamp), dt milliseconds after the last callback
ClockTick(dt) ==
  /\ pc = "running"
  /\ nTicks < MaxTicks
  /\ nTicks' = nTicks + 1
  /\ now' = now + dt
  /\ \E timestamp \in {now + dt} :
     \E framesSinceLastTick \in {((timestamp - lastTickTime) * 60) \div 1000} :
       /\ currentFrameNo' = currentFrameNo + framesSinceLastTick
       /\ IF framesSinceLastTick > 0
          THEN /\ lastTickTime' = timestamp
               /\ \E rnds \in RandomDraws(numToCreate(Len(enemies),
                                      DateNow(timestamp) - gameStartTime)) :
                    gameStep(framesSinceLastTick, DateNow(timestamp), rnds)
          ELSE /\ obs' = NoObs
               /\ UNCHANGED lastTickTime
               /\ UNCHANGED engineVars
  /\ UNCHANGED << pc, keyStatusMap, gameStartTime, scoreEventListeners,
                  playerDestroyedListeners >>
  /\ UNCHANGED benchVars

Next ==
  \/ AddScoreListener
  \/ AddPlayerDestroyedListener
  \/ \E rnd \in EnemyTops : InitEngine(rnd)
  \/ \E keyCode \in KeyCodes : KeyDown(keyCode)
  \/ \E keyCode \in KeyCodes : KeyUp(keyCode)
  \/ \E dt \in DtChoices : ClockTick(dt)

Spec == Init /\ [][Next]_vars

\* ------------------------------------------------------------------ claims
Count(seq, x) == Cardinality({i \in 1..Len(seq) : seq[i] = x})

SeqToSet(seq) == {seq[i] : i \in 1..Len(seq)}

\* The (bullet, enemy) index pairs that overlap in the arrays as the sweep
\* leaves them (the sweep moves no sprite).
OverlapPairs ==
  {p \in (1..Len(bullets)) \X (1..Len(enemies)) :
     overlap(bullets[p[1]], enemies[p[2]])}

\* C1: over a whole run no player-destroyed listener is called more than
\* once, even when the player still overlaps an enemy in later ticks.
C1_GameOverAtMostOnce ==
  \A l \in SeqToSet(playerDestroyedListeners) : Count(gameOverLog, l) <= 1

\* C5: an enemy or bullet the previous sweep marked done (so done when this
\* tick started) is gone from its array after this tick's passes, was not
\* drawn in this tick and took part in none of its collisions.
C5_MarkedSpriteRemoved ==
  obs.dispatched =>
    \A id \in obs.markedDone :
      /\ id \notin Ids(enemies) \cup Ids(bullets)
      /\ id \notin obs.drawn
      /\ \A i \in 1..Len(obs.hits) :
           obs.hits[i].bullet # id /\ obs.hits[i].enemy # id
      /\ \A i \in 1..Len(obs.playerHits) : obs.playerHits[i].enemy # id

\* C6: for every bullet the sweep finds overlapping an enemy, both are marked
\* done, one explosion is appended at the bullet's (top, left), and every
\* score listener is called once with a score of 10.
C6_KillAwardsScore ==
  obs.dispatched =>
    /\ Len(obs.hits) = Cardinality(OverlapPairs)
    /\ \A p \in OverlapPairs :
         /\ isDone(bullets[p[1]]) /\ isDone(enemies[p[2]])
         /\ \E i \in 1..Len(obs.hits) :
              /\ obs.hits[i].bullet = bullets[p[1]].id
              /\ obs.hits[i].enemy = enemies[p[2]].id
              /\ Cardinality({x \in 1..Len(explosions) :
                                explosions[x].id = obs.hits[i].boom}) = 1
              /\ \A x \in 1..Len(explosions) :
                   explosions[x].id = obs.hits[i].boom =>
                     /\ explosions[x].top = bullets[p[1]].top
                     /\ explosions[x].left = bullets[p[1]].left
    /\ Len(explosions) = obs.nExplosions + Len(obs.hits) + Len(obs.playerHits)
    /\ Len(obs.scores) = Len(obs.hits) * Len(scoreEventListeners)
    /\ \A i \in 1..Len(obs.scores) : obs.scores[i].score = 10
    /\ \A l \in SeqToSet(scoreEventListeners) :
         Cardinality({i \in 1..Len(obs.scores) : obs.scores[i].listener = l})
           = Len(obs.hits)

\* a sweep that found a bullet overlapping an enemy, with two listeners registered
C6_Witness ==
  /\ obs.dispatched
  /\ obs.hits # <<>>
  /\ Len(scoreEventListeners) >= 2
  /\ OverlapPairs # {}

\* C7: the sweep pairs only live enemies with live bullets: it makes as many
\* score notifications as there are enemies newly destroyed by bullets, and no
\* overlap it acts on involves a bullet or an enemy already marked done.
C7_OnlyLivePairs ==
  obs.dispatched =>
    /\ Len(obs.hits) = Cardinality({obs.hits[i].enemy : i \in 1..Len(obs.hits)})
    /\ \A i \in 1..Len(obs.hits) :
         ~obs.hits[i].bulletDone /\ ~obs.hits[i].enemyDone

\* C8: the player is marked destroyed only by an enemy that is not marked
\* done at the moment of the test.
C8_OnlyLiveEnemyKills ==
  obs.dispatched =>
    \A i \in 1..Len(obs.playerHits) : ~obs.playerHits[i].enemyDone

\* C9: in a tick that starts after the player was marked destroyed, input is
\* ignored whatever keys are pressed: no bullet is added and the player does
\* not move.
C9_InputIgnoredAfterDeath ==
  (obs.dispatched /\ obs.destroyedBefore) =>
    /\ ~obs.fired
    /\ playerSprite.top = obs.playerStart.top
    /\ playerSprite.left = obs.playerStart.left

\* ------------------------------------------------- one sprite on its own
\* Calls made on the sprite in one run.
MaxOps == 4
\* framesElapsed values passed to update
SpriteFrames == {1, 90, 100}
\* (top, left) pairs passed to setPosition: inside the canvas and off it
SpritePositions ==
  { <<100 * Scale, 100 * Scale>>, <<100 * Scale, -90 * Scale>>,
    <<canvasHeight * Scale, canvasWidth * Scale>>,
    <<canvasHeight * Scale + 1, 100 * Scale>>,
    <<-39 * Scale, -39 * Scale>> }

\* The sprites the engine builds: the player (a looping Sprite), an enemy (a
\* looping AutoSprite) about to leave the canvas on the left, a forward
\* bullet (frame rate 0) near the right edge, and an explosion (play-once).
SpriteKinds ==
  { createPlayerSprite(1),
    setPosition(createEnemySprite(1, 210), 210 * Scale, -79 * Scale),
    setPosition(createBulletSprites(createPlayerSprite(0), 1)[1],
                229 * Scale, 510 * Scale),
    createExplosionAt(1, 229 * Scale, 100 * Scale) }

InitSprite ==
  /\ GameInit
  /\ spr \in SpriteKinds
  /\ lastOp = <<>>
  /\ pool = <<>>
  /\ poolObs = [ran |-> FALSE]

gameVars == << pc, now, nTicks, lastTickTime, currentFrameNo, playerSprite,
               enemies, bullets, explosions, keyStatusMap, keyHitTime,
               gameStartTime, scoreEventListeners, playerDestroyedListeners,
               nextId, gameOverLog, everDestroyed, obs, clockVars, cacheVars >>

SprUpdate(framesElapsed) ==
  /\ Len(lastOp) < MaxOps
  /\ spr' = update(spr, framesElapsed)
  /\ lastOp' = Append(lastOp, [op |-> "update", ticks |-> framesElapsed])
  /\ UNCHANGED << gameVars, pool, poolObs >>

SprRender ==
  /\ Len(lastOp) < MaxOps
  /\ spr' = render(spr)
  /\ lastOp' = Append(lastOp, [op |-> "render", ticks |-> 0,
                               drew |-> renderDraws(spr)])
  /\ UNCHANGED << gameVars, pool, poolObs >>

SprSetPosition(pos) ==
  /\ Len(lastOp) < MaxOps
  /\ spr' = setPosition(spr, pos[1], pos[2])
  /\ lastOp' = Append(lastOp, [op |-> "setPosition", ticks |-> 0])
  /\ UNCHANGED << gameVars, pool, poolObs >>

\* setDone(true), the only call the engine makes
SprSetDone ==
  /\ Len(lastOp) < MaxOps
  /\ spr' = setDone(spr, TRUE)
  /\ lastOp' = Append(lastOp, [op |-> "setDone", ticks |-> 0])
  /\ UNCHANGED << gameVars, pool, poolObs >>

NextSprite ==
  \/ \E f \in SpriteFrames : SprUpdate(f)
  \/ SprRender
  \/ \E pos \in SpritePositions : SprSetPosition(pos)
  \/ SprSetDone

SpecSprite == InitSprite /\ [][NextSprite]_vars

\* C2: once isDone() is true it stays true over every update and render call.
C2_StickyDone ==
  [][(isDone(spr) /\ lastOp' # lastOp
        /\ lastOp'[Len(lastOp')].op \in {"update", "render"}) => isDone(spr')]_vars

\* Only update and render have been called, on a sprite inside the canvas.
OnlyAnimated ==
  /\ lastOp # <<>>
  /\ \A i \in 1..Len(lastOp) : lastOp[i].op \in {"update", "render"}
  /\ ~offCanvas(spr)

\* C18: a play-once sprite with N frames and D ticks per frame change is done
\* after an update exactly when floor(cumulativeTicks / D) has reached N, so
\* frameSet[0] is not up for drawing a second time.
C18_ExactTermination ==
  (OnlyAnimated /\ spr.once /\ frameDivisor(spr.fr) > 0
     /\ lastOp[Len(lastOp)].op = "update")
    => /\ isDone(spr)
            <=> (spr.clockFrame \div frameDivisor(spr.fr) >= Len(spr.frameSet))
       /\ (spr.clockFrame >= frameDivisor(spr.fr) /\ spr.frameIdx = 0)
            => isDone(spr)

\* The ticks handed to update over the calls ops
RECURSIVE SumTicks(_)
SumTicks(ops) ==
  IF ops = <<>> THEN 0 ELSE ops[1].ticks + SumTicks(Tail(ops))

\* C19: for a looping sprite with N frames and an integer D > 0 ticks per
\* frame change, frameIdx is floor(cumulativeTicks / D) mod N after any calls:
\* it is in 0..N-1 and is 0 whenever the cumulative ticks are a multiple of
\* D*N, however the ticks were split over the update calls.
C19_FrameCycle ==
  (~spr.once /\ spr.fr > 0 /\ 60 % spr.fr = 0) =>
    LET N == Len(spr.frameSet)
        D == 60 \div spr.fr
        cumulativeTicks == SumTicks(lastOp)
    IN /\ spr.frameIdx = (cumulativeTicks \div D) % N
       /\ spr.frameIdx \in 0..(N - 1)
       /\ cumulativeTicks % (D * N) = 0 => spr.frameIdx = 0

\* a looping sprite back at frame 0 after ticks that make up whole cycles,
\* handed over in updates of different sizes
C19_Witness ==
  /\ ~spr.once /\ spr.fr > 0
  /\ SumTicks(lastOp) > 0
  /\ SumTicks(lastOp) % ((60 \div spr.fr) * Len(spr.frameSet)) = 0
  /\ \E i, j \in 1..Len(lastOp) :
       /\ lastOp[i].op = "update" /\ lastOp[j].op = "update"
       /\ lastOp[i].ticks # lastOp[j].ticks
  /\ spr.frameIdx = 0

\* C20: update on a sprite of frame rate 0 leaves the frame index, the
\* accumulated tick count and the done flag as they were, whatever the ticks;
\* on an AutoSprite the position moves by pxPerFrame * ticks and nothing else
\* changes.
C20_StaticSprite ==
  [][(spr.fr = 0 /\ lastOp' # lastOp
        /\ lastOp'[Len(lastOp')].op = "update") =>
       LET ticks == lastOp'[Len(lastOp')].ticks
           along == IF spr.auto THEN spr.pxPerFrame * ticks ELSE 0
       IN /\ spr'.frameIdx = spr.frameIdx
          /\ spr'.clockFrame = spr.clockFrame
          /\ spr'.done = spr.done
          /\ spr' = [spr EXCEPT
                       !.left = IF spr.auto /\ spr.moveDirection = "horizontal"
                                THEN spr.left + along ELSE spr.left,
                       !.top = IF spr.auto /\ spr.moveDirection = "vertical"
                               THEN spr.top + along ELSE spr.top]]_vars

\* a bullet marked done, then updated: still done, never animated, and moved
\* by its speed times the ticks of its updates
C20_Witness ==
  /\ spr.fr = 0 /\ spr.auto
  /\ lastOp # <<>>
  /\ lastOp[Len(lastOp)] = [op |-> "update", ticks |-> 100]
  /\ \E i \in 1..Len(lastOp) : lastOp[i].op = "setDone"
  /\ \A i \in 1..Len(lastOp) : lastOp[i].op # "setPosition"
  /\ spr.done /\ spr.clockFrame = 0 /\ spr.frameIdx = 0
  /\ spr.left = 510 * Scale + spr.pxPerFrame * SumTicks(lastOp)

\* The sprite lies fully outside the canvas: its right edge is left of 0, its
\* left edge is right of the canvas width, and the same from top to bottom.
Outside(s) ==
  \/ s.left + s.w < 0
  \/ s.left > canvasWidth * Scale
  \/ s.top + s.h < 0
  \/ s.top > canvasHeight * Scale

\* C21: render marks the sprite done when and only when it was done already
\* or lies fully outside the canvas (touching an edge is inside), changes
\* nothing else, and draws the sprite if and only if it is not done after
\* that test.
C21_RenderMarksOutside ==
  [][(lastOp' # lastOp /\ lastOp'[Len(lastOp')].op = "render") =>
       /\ isDone(spr') <=> (isDone(spr) \/ Outside(spr))
       /\ spr' = [spr EXCEPT !.done = spr'.done]
       /\ lastOp'[Len(lastOp')].drew <=> ~isDone(spr')]_vars

\* a sprite whose left edge is on the right edge of the canvas and whose top
\* is on its bottom edge has been rendered: not done, and drawn
C21_Witness ==
  /\ lastOp # <<>>
  /\ lastOp[Len(lastOp)].op = "render"
  /\ lastOp[Len(lastOp)].drew
  /\ spr.left = canvasWidth * Scale
  /\ spr.top = canvasHeight * Scale
  /\ ~isDone(spr)

\* a sprite one hundredth of a pixel below the canvas has been rendered: done,
\* and not drawn
C21_JustOutside ==
  /\ lastOp # <<>>
  /\ lastOp[Len(lastOp)].op = "render"
  /\ ~lastOp[Len(lastOp)].drew
  /\ spr.top = canvasHeight * Scale + 1
  /\ Len(lastOp) = 2 /\ lastOp[1].op = "setPosition"
  /\ isDone(spr)

\* ------------------------------------------------ AutoSprite as configured
\* pixelsPerFrame values handed to the constructor (fixed-point)
AutoSpeeds == {ENEMY_SPEED, 0, BULLET_SPEED * Scale}
AutoDirections == {"horizontal", "vertical"}
AutoFrameRates == {0, 10}

\* An AutoSprite in mid canvas; poolObs keeps the constructor's
\* pixelsPerFrame.
InitAuto ==
  /\ GameInit
  /\ \E pixelsPerFrame \in AutoSpeeds, spriteDirection \in AutoDirections,
        fr \in AutoFrameRates :
       /\ spr = setPosition(AutoSprite(1, pixelsPerFrame, spriteDirection,
                                       17, 7, fr, <<0, 1>>, FALSE),
                            229 * Scale, 100 * Scale)
       /\ poolObs = [ran |-> FALSE, pixelsPerFrame |-> pixelsPerFrame]
  /\ lastOp = <<>>
  /\ pool = <<>>

SpecAuto == InitAuto /\ [][NextSprite]_vars

\* C22: AutoSprite.update(t) moves the sprite on its motion axis by exactly
\* pixelsPerFrame * t, for the pixelsPerFrame it was built with (negative,
\* zero or positive), leaves the other axis alone, and then does the base
\* update once with the same t.
C22_AutoTranslation ==
  [][(lastOp' # lastOp /\ lastOp'[Len(lastOp')].op = "update") =>
       LET t == lastOp'[Len(lastOp')].ticks
           along == poolObs.pixelsPerFrame * t
           moved == IF spr.moveDirection = "horizontal"
                    THEN setPosition(spr, spr.top, spr.left + along)
                    ELSE setPosition(spr, spr.top + along, spr.left)
       IN spr' = SpriteUpdate(moved, t)]_vars

\* ------------------------------------------------ renderSprites on its own
\* Longest array handed to renderSprites.
MaxPool == 3
PoolFrames == {1, 2}

\* Sprites as a pool can hold them when a pass starts: an enemy in mid
\* canvas, an enemy and a bullet about to leave it, a bullet and an enemy the
\* sweep has marked done, an explosion in its last frame and a fresh one.
PoolKinds ==
  { setPosition(createEnemySprite(0, 210), 210 * Scale, 300 * Scale),
    setPosition(createEnemySprite(0, 210), 210 * Scale, -79 * Scale),
    setPosition(createBulletSprites(createPlayerSprite(0), 0)[1],
                229 * Scale, 510 * Scale),
    setDone(setPosition(createBulletSprites(createPlayerSprite(0), 0)[1],
                        229 * Scale, 100 * Scale), TRUE),
    setDone(setPosition(createEnemySprite(0, 210), 210 * Scale, 100 * Scale),
            TRUE),
    [createExplosionAt(0, 229 * Scale, 100 * Scale) EXCEPT
       !.clockFrame = 194, !.frameIdx = 0],
    createExplosionAt(0, 229 * Scale, 100 * Scale) }

InitPool ==
  /\ GameInit
  /\ spr = createPlayerSprite(0)
  /\ lastOp = <<>>
  /\ \E n \in 0..MaxPool :
       \E kinds \in [1..n -> PoolKinds] :
         pool = [i \in 1..n |-> [kinds[i] EXCEPT !.id = i]]
  /\ poolObs = [ran |-> FALSE]

\* renderSprites(pool, framesElapsed)
PoolPass(framesElapsed) ==
  /\ ~poolObs.ran
  /\ LET r == renderSprites(pool, framesElapsed)
     IN /\ pool' = r.arr
        /\ poolObs' = [ran |-> TRUE, before |-> pool,
                       framesElapsed |-> framesElapsed, log |-> r.log]
  /\ UNCHANGED << gameVars, spr, lastOp >>

NextPool == \E f \in PoolFrames : PoolPass(f)

SpecPool == InitPool /\ [][NextPool]_vars

\* each sprite of the array before the pass, updated and rendered once
Processed(arr, framesElapsed) ==
  [i \in 1..Len(arr) |-> render(update(arr[i], framesElapsed))]

NotDone(s) == ~isDone(s)

\* C3: after renderSprites the array holds exactly the sprites that are not
\* done after their update and render, in their original order.
C3_PoolCompaction ==
  poolObs.ran =>
    /\ pool = SelectSeq(Processed(poolObs.before, poolObs.framesElapsed), NotDone)
    /\ \A i \in 1..Len(pool) : ~isDone(pool[i])

\* a pass over three sprites of which two adjacent ones and the last end done
C3_Witness ==
  /\ poolObs.ran
  /\ Len(poolObs.before) = 3
  /\ Len(pool) = 1
  /\ pool[1].id = 1

\* C4: one pass updates and renders every sprite of the array exactly once,
\* in index order.
C4_EachSpriteOnce ==
  poolObs.ran =>
    [i \in 1..Len(poolObs.log) |-> poolObs.log[i].id]
      = [i \in 1..Len(poolObs.before) |-> poolObs.before[i].id]

\* a pass that removed a sprite and then processed the one shifted into its
\* index
C4_Witness ==
  /\ poolObs.ran
  /\ Len(poolObs.before) >= 2
  /\ \E i \in 1..(Len(poolObs.log) - 1) :
       ~poolObs.log[i].drawn /\ poolObs.log[i + 1].drawn

\* ------------------------------------------------- the player's movement
\* Game steps taken in one run.
MaxMoves == 3
MoveFrames == {1, 200}
\* Arrow keys and a key that is no game key
MoveKeyCodes == {37, 38, 39, 40, 65}
\* (top, left) of the player when the run starts: where createPlayerSprite
\* puts it, the origin, the corner opposite the origin and a place in between.
StartPositions ==
  { <<createPlayerSprite(0).top, createPlayerSprite(0).left>>,
    <<0, 0>>,
    <<canvasHeight * Scale - playerHeight, canvasWidth * Scale - playerWidth>>,
    <<100 * Scale, 300 * Scale>> }

InitMove ==
  /\ pc = "running"
  /\ now = 0
  /\ nTicks = 0
  /\ lastTickTime = 0
  /\ currentFrameNo = 0
  /\ \E pos \in StartPositions :
       playerSprite = setPosition(createPlayerSprite(0), pos[1], pos[2])
  /\ enemies = <<>>
  /\ bullets = <<>>
  /\ explosions = <<>>
  /\ keyStatusMap = [k \in Keys |-> FALSE]
  /\ keyHitTime = [k \in Keys |-> 0]
  /\ gameStartTime = DateNow(0)
  /\ scoreEventListeners = <<>>
  /\ playerDestroyedListeners = <<>>
  /\ nextId = 1
  /\ gameOverLog = <<>>
  /\ everDestroyed = FALSE
  /\ obs = [dispatched |-> FALSE, moved |-> FALSE]
  /\ BenchIdle

\* The player's part of the game step: checkPlayerActions unless the player is
\* done, then playerSprite.update and playerSprite.render
MoveStep(framesElapsed) ==
  /\ nTicks < MaxMoves
  /\ nTicks' = nTicks + 1
  /\ \E act \in {playerActions(framesElapsed, DateNow(now), nextId)} :
       /\ playerSprite' = render(update(act.player, framesElapsed))
       /\ bullets' = act.bullets
       /\ keyHitTime' = act.keyHitTime
       /\ nextId' = act.nextId
  /\ obs' = [dispatched |-> FALSE, moved |-> TRUE, playerStart |-> playerSprite,
             framesElapsed |-> framesElapsed, keys |-> keyStatusMap]
  /\ UNCHANGED << pc, now, lastTickTime, currentFrameNo, enemies, explosions,
                  keyStatusMap, gameStartTime, scoreEventListeners,
                  playerDestroyedListeners, gameOverLog, everDestroyed >>
  /\ UNCHANGED benchVars

NextMove ==
  \/ \E keyCode \in MoveKeyCodes : KeyDown(keyCode)
  \/ \E keyCode \in MoveKeyCodes : KeyUp(keyCode)
  \/ \E f \in MoveFrames : MoveStep(f)

SpecMove == InitMove /\ [][NextMove]_vars

\* C10: the player's position stays inside
\* [0, canvasWidth - playerWidth] x [0, canvasHeight - playerHeight].
C10_ClampedMovement ==
  /\ 0 <= playerSprite.left
  /\ playerSprite.left <= canvasWidth * Scale - playerWidth
  /\ 0 <= playerSprite.top
  /\ playerSprite.top <= canvasHeight * Scale - playerHeight

\* a step with UP pressed that would have carried the player above the canvas
C10_Witness ==
  /\ obs.moved
  /\ obs.keys["UP"]
  /\ ~obs.keys["DOWN"]
  /\ obs.playerStart.top > 0
  /\ obs.playerStart.top - MOVE_PIXELS * Scale * obs.framesElapsed < 0
  /\ playerSprite.top = 0

\* C11: with one horizontal and one vertical direction key pressed during a
\* step, the player moves MOVE_PIXELS*framesElapsed along both axes in that
\* step, each axis clamped on its own.
C11_DiagonalMove ==
  LET start == obs.playerStart
      step == MOVE_PIXELS * Scale * obs.framesElapsed
      leftWanted == IF obs.keys["LEFT"]
                    THEN Max(0, start.left - step)
                    ELSE Min(canvasWidth * Scale - playerWidth, start.left + step)
      topWanted == IF obs.keys["UP"]
                   THEN Max(0, start.top - step)
                   ELSE Min(canvasHeight * Scale - playerHeight, start.top + step)
  IN (/\ obs.moved
      /\ ~isDone(start)
      /\ obs.keys["LEFT"] # obs.keys["RIGHT"]
      /\ obs.keys["UP"] # obs.keys["DOWN"])
     => /\ playerSprite.left = leftWanted
        /\ playerSprite.top = topWanted

\* The bullets of a volley that move along direction with the given speed
Moving(volley, direction, speed) ==
  {i \in 1..Len(volley) : /\ volley[i].moveDirection = direction
                          /\ volley[i].pxPerFrame = speed}

\* The player at start can still move in the direction of key k.
HasRoom(start, k) ==
  CASE k = "LEFT" -> start.left > 0
    [] k = "RIGHT" -> start.left < canvasWidth * Scale - playerWidth
    [] k = "UP" -> start.top > 0
    [] k = "DOWN" -> start.top < canvasHeight * Scale - playerHeight
    [] OTHER -> FALSE

\* C30: input is level-triggered.  A step acts on the key states current when
\* it runs: with no key down (also after a press and a release since the
\* step before) the player does not move and no bullet is created; a key
\* that is down moves the player in every step in which it has room to; a
\* key event for a code other than 32, 37, 38, 39, 40 leaves the key-status
\* map as it is.
C30_LevelTriggered ==
  /\ \A keyCode \in MoveKeyCodes \ {32, 37, 38, 39, 40}, status \in BOOLEAN :
       setKeyStatus(keyStatusMap, keyCode, status) = keyStatusMap
  /\ obs.moved =>
       /\ (\A k \in Keys : ~obs.keys[k]) =>
            /\ playerSprite.top = obs.playerStart.top
            /\ playerSprite.left = obs.playerStart.left
            /\ bullets = <<>>
       /\ (/\ ~isDone(obs.playerStart)
           /\ \E k \in Keys : obs.keys[k] /\ HasRoom(obs.playerStart, k)) =>
            \/ playerSprite.top # obs.playerStart.top
            \/ playerSprite.left # obs.playerStart.left

\* C12: in a tick where the player is not destroyed, bullets are added iff
\* SPACE is pressed and the key-repeat gate accepts; then exactly three are
\* appended: one moving right, one up and one down, each at BULLET_SPEED, the
\* forward one with its left edge at the player's right edge.
C12_VolleyOfThree ==
  (obs.dispatched /\ ~isDone(obs.playerStart)) =>
    LET accepted == /\ obs.keys["SPACE"]
                    /\ obs.curTime - obs.hitTimeBefore["SPACE"] >= KEY_REPEAT_DELAY
        volley == obs.spawned
    IN /\ obs.bulletsKept
       /\ Len(volley) = IF accepted THEN 3 ELSE 0
       /\ accepted =>
            /\ Cardinality(Moving(volley, "horizontal", BULLET_SPEED * Scale)) = 1
            /\ Cardinality(Moving(volley, "vertical", -(BULLET_SPEED * Scale))) = 1
            /\ Cardinality(Moving(volley, "vertical", BULLET_SPEED * Scale)) = 1
            /\ \A i \in Moving(volley, "horizontal", BULLET_SPEED * Scale) :
                 volley[i].left = obs.playerActed.left + obs.playerActed.w

\* a tick in which SPACE was held and the gate accepted, after the player moved
C12_Witness ==
  /\ obs.dispatched
  /\ ~isDone(obs.playerStart)
  /\ obs.keys["SPACE"]
  /\ Len(obs.spawned) = 3
  /\ obs.playerActed.left > obs.playerStart.left

\* a tick in which SPACE was held and the gate refused
C12_Refused ==
  /\ obs.dispatched
  /\ ~isDone(obs.playerStart)
  /\ obs.keys["SPACE"]
  /\ obs.spawned = <<>>

\* --------------------------------------------------- the key-repeat gate
\* checkKeyHitDelay calls and waits between them in one run.
MaxCalls == 3
MaxWaits == 2
\* Milliseconds after the time origin at which the run starts
GateStarts == {0, 7}
\* Milliseconds that pass between calls: around KEY_REPEAT_DELAY
GateWaits == {1, KEY_REPEAT_DELAY - 1, KEY_REPEAT_DELAY}
GateKeys == {"SPACE", "UP"}
GateDelays == {KEY_REPEAT_DELAY, 2 * KEY_REPEAT_DELAY}

InitGate ==
  /\ pc = "running"
  /\ now \in GateStarts
  /\ nTicks = 0
  /\ lastTickTime = 0
  /\ currentFrameNo = 0
  /\ playerSprite = createPlayerSprite(0)
  /\ enemies = <<>>
  /\ bullets = <<>>
  /\ explosions = <<>>
  /\ keyStatusMap = [k \in Keys |-> FALSE]
  /\ keyHitTime = [k \in Keys |-> 0]
  /\ gameStartTime = DateNow(0)
  /\ scoreEventListeners = <<>>
  /\ playerDestroyedListeners = <<>>
  /\ nextId = 1
  /\ gameOverLog = <<>>
  /\ everDestroyed = FALSE
  /\ obs = [dispatched |-> FALSE, moved |-> FALSE, calls |-> <<>>, waits |-> 0]
  /\ BenchIdle

\* checkKeyHitDelay(keyName, delay)
GateCall(name, delay) ==
  /\ Len(obs.calls) < MaxCalls
  /\ \E r \in {checkKeyHitDelay(keyHitTime, name, delay, DateNow(now))} :
       /\ keyHitTime' = r.keyHitTime
       /\ obs' = [obs EXCEPT !.calls =
                    Append(@, [key |-> name, delay |-> delay,
                               time |-> DateNow(now), before |-> keyHitTime,
                               ok |-> r.ok, after |-> r.keyHitTime])]
  /\ UNCHANGED << pc, now, nTicks, lastTickTime, currentFrameNo, playerSprite,
                  enemies, bullets, explosions, keyStatusMap, gameStartTime,
                  scoreEventListeners, playerDestroyedListeners, nextId,
                  gameOverLog, everDestroyed >>
  /\ UNCHANGED benchVars

\* wall-clock time passing between two calls
GateWait(dt) ==
  /\ obs.waits < MaxWaits
  /\ now' = now + dt
  /\ obs' = [obs EXCEPT !.waits = @ + 1]
  /\ UNCHANGED << pc, nTicks, lastTickTime, currentFrameNo, playerSprite,
                  enemies, bullets, explosions, keyStatusMap, keyHitTime,
                  gameStartTime, scoreEventListeners, playerDestroyedListeners,
                  nextId, gameOverLog, everDestroyed >>
  /\ UNCHANGED benchVars

NextGate ==
  \/ \E name \in GateKeys : \E delay \in GateDelays : GateCall(name, delay)
  \/ \E dt \in GateWaits : GateWait(dt)

SpecGate == InitGate /\ [][NextGate]_vars

\* The calls made so far for key name, as indices of obs.calls in order
CallsFor(name) == {i \in 1..Len(obs.calls) : obs.calls[i].key = name}

C14_GateSideEffects ==
  \A i \in 1..Len(obs.calls) :
    LET c == obs.calls[i]
    IN IF c.ok
       THEN c.after = [c.before EXCEPT ![c.key] = c.time]
       ELSE c.after = c.before

\* a refused call for a key with a stored timestamp, and an accepted call made
\* while another key had one
C14_Witness ==
  /\ \E i \in 1..Len(obs.calls) :
       ~obs.calls[i].ok /\ obs.calls[i].before[obs.calls[i].key] > 0
  /\ \E i \in 1..Len(obs.calls) :
       /\ obs.calls[i].ok
       /\ \E k \in Keys : k # obs.calls[i].key /\ obs.calls[i].before[k] > 0

\* ------------------------------------------------------ the spawn policy
\* addEnemies calls, waits and enemy removals in one run.
MaxSpawns == 3
MaxSpawnWaits == 2
MaxLeaves == 1
\* Milliseconds since init() at which the run starts
SpawnStarts == {0, 15001, 150000}
\* Milliseconds that pass between addEnemies calls
SpawnWaits == {1, 135000, 150000}
\* The draws of n successive Math.random() calls: all the same lane
SpawnDraws(n) == {[i \in 1..n |-> 210]}
\* Enemies in the array when the run starts
SpawnPools == {0, 1, 5}

InitSpawn ==
  /\ pc = "running"
  /\ now \in SpawnStarts
  /\ nTicks = 0
  /\ lastTickTime = 0
  /\ currentFrameNo = 0
  /\ playerSprite = createPlayerSprite(0)
  /\ \E n \in SpawnPools :
       /\ enemies = [i \in 1..n |-> createEnemySprite(i, 210)]
       /\ nextId = n + 1
  /\ bullets = <<>>
  /\ explosions = <<>>
  /\ keyStatusMap = [k \in Keys |-> FALSE]
  /\ keyHitTime = [k \in Keys |-> 0]
  /\ gameStartTime = DateNow(0)
  /\ scoreEventListeners = <<>>
  /\ playerDestroyedListeners = <<>>
  /\ gameOverLog = <<>>
  /\ everDestroyed = FALSE
  /\ obs = [dispatched |-> FALSE, moved |-> FALSE, spawns |-> <<>>,
            waits |-> 0, leaves |-> 0]
  /\ BenchIdle

\* Array.prototype.push.apply(enemies, addEnemies()), the head of the game step
SpawnEnemies ==
  /\ Len(obs.spawns) < MaxSpawns
  /\ \E elapsedTimeMillis \in {DateNow(now) - gameStartTime} :
     \E rnds \in SpawnDraws(numToCreate(Len(enemies), elapsedTimeMillis)) :
     \E newEnemies \in {addEnemies(nextId, rnds)} :
       /\ enemies' = enemies \o newEnemies
       /\ nextId' = nextId + Len(newEnemies)
       /\ obs' = [obs EXCEPT !.spawns =
                    Append(@, [elapsed |-> elapsedTimeMillis,
                               n |-> Len(enemies),
                               created |-> Len(newEnemies),
                               target |-> currentMaxEnemies(elapsedTimeMillis)])]
  /\ UNCHANGED << pc, now, nTicks, lastTickTime, currentFrameNo, playerSprite,
                  bullets, explosions, keyStatusMap, keyHitTime, gameStartTime,
                  scoreEventListeners, playerDestroyedListeners, gameOverLog,
                  everDestroyed >>
  /\ UNCHANGED benchVars

\* wall-clock time passing between two game steps
SpawnWait(dt) ==
  /\ obs.waits < MaxSpawnWaits
  /\ now' = now + dt
  /\ obs' = [obs EXCEPT !.waits = @ + 1]
  /\ UNCHANGED << pc, nTicks, lastTickTime, currentFrameNo, playerSprite,
                  enemies, bullets, explosions, keyStatusMap, keyHitTime,
                  gameStartTime, scoreEventListeners, playerDestroyedListeners,
                  nextId, gameOverLog, everDestroyed >>
  /\ UNCHANGED benchVars

\* renderSprites removing the enemy at the head of the array
EnemyLeaves ==
  /\ obs.leaves < MaxLeaves
  /\ enemies # <<>>
  /\ enemies' = splice(enemies, 0)
  /\ obs' = [obs EXCEPT !.leaves = @ + 1]
  /\ UNCHANGED << pc, now, nTicks, lastTickTime, currentFrameNo, playerSprite,
                  bullets, explosions, keyStatusMap, keyHitTime, gameStartTime,
                  scoreEventListeners, playerDestroyedListeners, nextId,
                  gameOverLog, everDestroyed >>
  /\ UNCHANGED benchVars

NextSpawn ==
  \/ SpawnEnemies
  \/ \E dt \in SpawnWaits : SpawnWait(dt)
  \/ EnemyLeaves

SpecSpawn == InitSpawn /\ [][NextSpawn]_vars

\* T of the spawn policy, in whole enemies
Target(elapsedMs) ==
  Min((MAX_ENEMIES * (initialAdditionRate
                      + ENEMY_ADDITION_INCREMENT * (elapsedMs \div MS_PER_INCREMENT)))
        \div 100,
      MAX_ENEMIES)

\* C15: every addEnemies call creates exactly max(0, T - n) enemies, n the
\* array's length before the call; T never exceeds MAX_ENEMIES and never
\* decreases as the elapsed time grows, and nothing is created when n >= T.
C15_SpawnPolicy ==
  \A i \in 1..Len(obs.spawns) :
    LET s == obs.spawns[i]
    IN /\ s.target = Target(s.elapsed)
       /\ s.created = Max(0, s.target - s.n)
       /\ s.target <= MAX_ENEMIES
       /\ s.n >= s.target => s.created = 0
       /\ \A j \in 1..Len(obs.spawns) :
            obs.spawns[j].elapsed >= s.elapsed => obs.spawns[j].target >= s.target

\* a call that tops up an array that is not empty, one that has nothing to
\* create, and one with a higher target
C15_Witness ==
  \E i, j, k \in 1..Len(obs.spawns) :
    /\ obs.spawns[i].n > 0 /\ obs.spawns[i].created > 0
    /\ obs.spawns[j].created = 0 /\ obs.spawns[j].n = obs.spawns[j].target
    /\ obs.spawns[k].target > obs.spawns[i].target

\* C16 as the spec states it: the target is 5 at 0 ms, 10 at 15001 ms and 100
\* at 150000 ms.
C16_SpawnRampStated ==
  \A i \in 1..Len(obs.spawns) :
    LET s == obs.spawns[i]
    IN /\ s.elapsed = 0 => s.target = 5
       /\ s.elapsed = 15001 => s.target = 10
       /\ s.elapsed = 150000 => s.target = 100

\* C16, amended: the target is 5 at 0 ms, 10 at 15001 ms, 55 at 150000 ms (ten
\* increments), 100 at 285000 ms (nineteen increments) and still 100, not 105,
\* at 300000 ms.
C16_SpawnRamp ==
  \A i \in 1..Len(obs.spawns) :
    LET s == obs.spawns[i]
    IN /\ s.elapsed = 0 => s.target = 5
       /\ s.elapsed = 15001 => s.target = 10
       /\ s.elapsed = 150000 => s.target = 55
       /\ s.elapsed = 285000 => s.target = 100
       /\ s.elapsed = 300000 => s.target = 100

\* addEnemies calls at 150000 ms and at 300000 ms
C16_Witness ==
  \E i, j \in 1..Len(obs.spawns) :
    /\ obs.spawns[i].elapsed = 150000
    /\ obs.spawns[j].elapsed = 300000

\* The sprite of arr with identity id (arr holds one)
ById(arr, id) == arr[CHOOSE i \in 1..Len(arr) : arr[i].id = id]

\* s is sprite old moved by one update of framesElapsed frames
MovedOnce(s, old, framesElapsed) ==
  /\ s.left = old.left + (IF old.auto /\ old.moveDirection = "horizontal"
                          THEN old.pxPerFrame * framesElapsed ELSE 0)
  /\ s.top = old.top + (IF old.auto /\ old.moveDirection = "vertical"
                        THEN old.pxPerFrame * framesElapsed ELSE 0)
  /\ s.clockFrame = old.clockFrame + (IF old.fr > 0 THEN framesElapsed ELSE 0)

\* C17: in every tick the steps run in the order spawn, input, player update
\* and render, enemy pass, bullet pass, explosion pass, sweep.  Enemies and
\* bullets created in the tick are created in that order and are moved once
\* in the same tick, like the sprites that were there before; the player is
\* updated after its input; the sweep acts on overlaps of the moved sprites;
\* an explosion the sweep creates has not been updated when the tick ends.
C17_StepOrder ==
  obs.dispatched =>
    LET f == obs.framesElapsed
        firstBullet == obs.before.nextId + obs.nCreated
        firstBoom == firstBullet + Len(obs.spawned)
        created == [i \in 1..obs.nCreated |->
                      createEnemySprite(obs.before.nextId + i - 1, 0)]
    IN /\ \A i \in 1..Len(obs.spawned) : obs.spawned[i].id = firstBullet + i - 1
       /\ \A i \in 1..Len(enemies) :
            IF enemies[i].id \in Ids(obs.before.enemies)
            THEN MovedOnce(enemies[i], ById(obs.before.enemies, enemies[i].id), f)
            ELSE /\ enemies[i].id \in Ids(created)
                 /\ enemies[i].left = created[1].left + ENEMY_SPEED * f
                 /\ enemies[i].clockFrame = f
       /\ \A i \in 1..Len(bullets) :
            IF bullets[i].id \in Ids(obs.before.bullets)
            THEN MovedOnce(bullets[i], ById(obs.before.bullets, bullets[i].id), f)
            ELSE /\ bullets[i].id \in Ids(obs.spawned)
                 /\ MovedOnce(bullets[i], ById(obs.spawned, bullets[i].id), f)
       /\ \A i \in 1..Len(explosions) :
            IF explosions[i].id \in Ids(obs.before.explosions)
            THEN MovedOnce(explosions[i],
                           ById(obs.before.explosions, explosions[i].id), f)
            ELSE /\ explosions[i].id >= firstBoom
                 /\ explosions[i].clockFrame = 0
                 /\ explosions[i].frameIdx = 0
       /\ playerSprite.top = obs.playerActed.top
       /\ playerSprite.left = obs.playerActed.left
       /\ playerSprite.clockFrame = obs.playerStart.clockFrame + f
       /\ \A i \in 1..Len(obs.hits) :
            /\ obs.hits[i].bullet \in Ids(bullets)
            /\ obs.hits[i].enemy \in Ids(enemies)
            /\ overlap(ById(bullets, obs.hits[i].bullet),
                       ById(enemies, obs.hits[i].enemy))
       /\ \A i, j \in 1..Len(obs.passTypes) :
            i < j => <<obs.passTypes[i], obs.passTypes[j]>>
                       \in { <<"ENEMY", "ENEMY">>, <<"ENEMY", "BULLET">>,
                             <<"ENEMY", "NONE">>, <<"BULLET", "BULLET">>,
                             <<"BULLET", "NONE">>, <<"NONE", "NONE">> }

\* a tick that fired a volley whose bullet, moved in the same tick, the sweep
\* found on an enemy, and that ends with the explosion of that hit
C17_Witness ==
  /\ obs.dispatched
  /\ obs.spawned # <<>>
  /\ \E i \in 1..Len(obs.hits) : obs.hits[i].bullet \in Ids(obs.spawned)
  /\ \E i \in 1..Len(explosions) :
       /\ explosions[i].id \notin Ids(obs.before.explosions)
       /\ explosions[i].clockFrame = 0

\* the tick after: the explosion of an earlier sweep gets its first update
C17_NextTick ==
  /\ obs.dispatched
  /\ \E i \in 1..Len(explosions) :
       /\ explosions[i].id \in Ids(obs.before.explosions)
       /\ ById(obs.before.explosions, explosions[i].id).clockFrame = 0
       /\ explosions[i].clockFrame = obs.framesElapsed

\* ---------------------------------------------------------- overlap on its own
\* Largest top or left of a box, and largest width or height of one.
MaxCoord == 3
MaxSize == 3

\* The boxes overlap reads from a sprite: position and size
Boxes ==
  [top : 0..MaxCoord, left : 0..MaxCoord, w : 1..MaxSize, h : 1..MaxSize]

InitOverlap ==
  /\ GameInit
  /\ spr = createPlayerSprite(0)
  /\ lastOp = <<>>
  /\ pool \in {<<s1, s2>> : s1 \in Boxes, s2 \in Boxes}
  /\ poolObs = [ran |-> FALSE]

\* overlap(s1, s2), overlap(s2, s1) and overlap(s1, s1) on the two boxes
OverlapCall ==
  /\ ~poolObs.ran
  /\ poolObs' = [ran |-> TRUE,
                 s1s2 |-> overlap(pool[1], pool[2]),
                 s2s1 |-> overlap(pool[2], pool[1]),
                 s1s1 |-> overlap(pool[1], pool[1])]
  /\ UNCHANGED << gameVars, spr, lastOp, pool >>

NextOverlap == OverlapCall

SpecOverlap == InitOverlap /\ [][NextOverlap]_vars

\* C23: overlap is symmetric, overlap(A, B) = overlap(B, A), and overlap(A, A)
\* is true, for all boxes of positive size.
C23_OverlapSymmetric ==
  poolObs.ran => /\ poolObs.s1s2 = poolObs.s2s1
                 /\ poolObs.s1s1

\* The closed intervals [a, a + m] and [b, b + n] have a point in common.
Intersect(a, m, b, n) == a <= b + n /\ b <= a + m

\* C24: overlap(s1, s2) is true exactly when the vertical extents
\* [top, top + h] intersect and the horizontal extents [left, left + w]
\* intersect, also when s2 lies inside s1 and when the boxes cross without a
\* corner of s1 inside s2.
C24_OverlapIsIntersection ==
  poolObs.ran =>
    (poolObs.s1s2 <=>
       /\ Intersect(pool[1].top, pool[1].h, pool[2].top, pool[2].h)
       /\ Intersect(pool[1].left, pool[1].w, pool[2].left, pool[2].w))

\* ------------------------------------------------------ GameClock on its own
\* clockTick invocations in one run, and step functions registered.
MaxClockTicks == 4
MaxSteps == 2
\* Milliseconds since the time origin at which a callback runs, in any order
ClockStamps == {10, 25, 34, 51}

\* Milliseconds since the time origin at which start() is called
ClockStartStamps == {0, 9}

\* Math.floor((timestamp - lastTickTime) / millsecsPerFrame), 1000/60 ms a frame
framesSinceLastTick(timestamp, lastTick) == ((timestamp - lastTick) * 60) \div 1000

\* A request that queues the callback twice.
requestAnimationFrameTwice(pending) == pending + 2

\* requestAnimationFrame(clockTick): one more callback is pending
requestAnimationFrame(pending) == pending + 1

\* A dispatch that calls the step functions last to first.
forEachReversed(fns, framesElapsed, curFrameNo, lastTick) ==
  [i \in 1..Len(fns) |->
     [fn |-> fns[Len(fns) + 1 - i], framesElapsed |-> framesElapsed,
      curFrameNo |-> curFrameNo, lastTickTime |-> lastTick]]

\* stepFunctions.forEach(fn => fn(framesSinceLastTick, currentFrameNo)): the
\* calls made, each with the lastTickTime in force while it runs
forEach(fns, framesElapsed, curFrameNo, lastTick) ==
  [i \in 1..Len(fns) |->
     [fn |-> fns[i], framesElapsed |-> framesElapsed,
      curFrameNo |-> curFrameNo, lastTickTime |-> lastTick]]

\* the variables the clock does not use
clockRest == << playerSprite, enemies, bullets, explosions, keyStatusMap,
                keyHitTime, gameStartTime, scoreEventListeners,
                playerDestroyedListeners, nextId, gameOverLog, everDestroyed,
                obs, spr, lastOp, pool, poolObs, cacheVars >>

\* gameClock.registerStep(stepFunction); the functions are numbered in the
\* order of their registration
RegisterStep ==
  /\ Len(stepFunctions) < MaxSteps
  /\ stepFunctions' = Append(stepFunctions, Len(stepFunctions) + 1)
  /\ UNCHANGED << pc, now, nTicks, lastTickTime, currentFrameNo,
                  pendingCallbacks, clockLog, clockRest >>

\* gameClock.start(), called once, tStart milliseconds after the time origin;
\* native tells whether the browser has a requestAnimationFrame, which passes
\* a timestamp, or the setTimeout replacement runs the callbacks, which
\* passes none
ClockStart(native, tStart) ==
  /\ pc = "constructed"
  /\ pc' = IF native THEN "requestAnimationFrame" ELSE "setTimeout"
  /\ now' = tStart
  /\ pendingCallbacks' = requestAnimationFrame(pendingCallbacks)
  /\ UNCHANGED << nTicks, lastTickTime, currentFrameNo, stepFunctions,
                  clockLog, clockRest >>

\* A pending clockTick callback runs t milliseconds after the time origin.
ClockInvoke(t) ==
  /\ pc \in {"requestAnimationFrame", "setTimeout"}
  /\ pendingCallbacks > 0
  /\ nTicks < MaxClockTicks
  /\ nTicks' = nTicks + 1
  /\ now' = t
  /\ \E passed \in {IF pc = "requestAnimationFrame" THEN t ELSE 0} :
     \E timestamp \in {IF passed # 0 THEN passed ELSE DateNow(t)} :
     \E frames \in {framesSinceLastTick(timestamp, lastTickTime)} :
     \E calls \in {IF frames > 0
                   THEN forEach(stepFunctions, frames, currentFrameNo + frames,
                                lastTickTime)
                   ELSE <<>>} :
       /\ currentFrameNo' = currentFrameNo + frames
       /\ lastTickTime' = IF frames > 0 THEN timestamp ELSE lastTickTime
       /\ clockLog' = Append(clockLog,
                             [timestamp |-> timestamp, frames |-> frames,
                              calls |-> calls, steps |-> stepFunctions,
                              previous |-> now, passed |-> passed # 0,
                              lastBefore |-> lastTickTime,
                              lastAfter |-> lastTickTime',
                              frameNoBefore |-> currentFrameNo,
                              frameNoAfter |-> currentFrameNo'])
  /\ pendingCallbacks' = requestAnimationFrame(pendingCallbacks - 1)
  /\ UNCHANGED << pc, stepFunctions, clockRest >>

NextClock ==
  \/ RegisterStep
  \/ \E native \in BOOLEAN, tStart \in ClockStartStamps :
       ClockStart(native, tStart)
  \/ \E t \in ClockStamps : ClockInvoke(t)

SpecClock == Init /\ [][NextClock]_vars

\* The browser runs a requested callback.
SpecClockFair == SpecClock /\ WF_vars(\E t \in ClockStamps : ClockInvoke(t))

\* The invocations of clockLog that called the step functions
Dispatches == {i \in 1..Len(clockLog) : clockLog[i].calls # <<>>
                                         \/ clockLog[i].frames > 0}

\* The ticks handed to the step functions over the invocations log
RECURSIVE TicksDispatched(_)
TicksDispatched(log) ==
  IF log = <<>> THEN 0
  ELSE (IF log[1].frames > 0 THEN log[1].frames ELSE 0)
       + TicksDispatched(Tail(log))

\* C25: an invocation whose timestamp is less than one full tick (1000/60 ms)
\* after lastTickTime calls no step function and leaves lastTickTime and
\* currentFrameNo as they were; every dispatch passes a tick count >= 1.
C25_NoDispatchWithinTick ==
  \A i \in 1..Len(clockLog) :
    LET inv == clockLog[i]
    IN /\ (inv.timestamp - inv.lastBefore) * 60 < 1000 =>
            /\ inv.calls = <<>>
            /\ inv.lastAfter = inv.lastBefore
            /\ inv.frameNoAfter = inv.frameNoBefore
       /\ \A j \in 1..Len(inv.calls) : inv.calls[j].framesElapsed >= 1

\* C26: on every dispatch each registered step function is called exactly
\* once, in the order of registration, all with the same pair (ticks elapsed,
\* currentFrameNo), currentFrameNo including the ticks of this dispatch;
\* lastTickTime becomes the timestamp only after all of them have run.
C26_DispatchInOrder ==
  \A i \in 1..Len(clockLog) :
    LET inv == clockLog[i]
    IN inv.frames > 0 =>
         /\ Len(inv.calls) = Len(inv.steps)
         /\ \A j \in 1..Len(inv.calls) :
              /\ inv.calls[j].fn = inv.steps[j]
              /\ inv.calls[j].framesElapsed = inv.frames
              /\ inv.calls[j].curFrameNo = inv.frameNoBefore + inv.frames
              /\ inv.calls[j].lastTickTime = inv.lastBefore
         /\ inv.lastAfter = inv.timestamp

\* a dispatch to two step functions that is not the first one
C26_Witness ==
  \E i \in 1..Len(clockLog) :
    /\ clockLog[i].frames > 0
    /\ Len(clockLog[i].calls) >= 2
    /\ clockLog[i].lastBefore > 0
    /\ clockLog[i].lastBefore # clockLog[i].timestamp
    /\ clockLog[i].frameNoBefore > 0

\* C27: currentFrameNo never decreases, whatever the timestamps: it is the
\* sum of the tick counts passed to the step functions so far.
C27_FrameNoIsTicksDispatched ==
  /\ currentFrameNo = TicksDispatched(clockLog)
  /\ \A i \in 1..Len(clockLog) :
       clockLog[i].frameNoAfter >= clockLog[i].frameNoBefore

C29_NoFractionLost ==
  (/\ Dispatches # {}
   /\ \A i \in 1..Len(clockLog) : clockLog[i].timestamp >= clockLog[i].lastBefore)
    => LET latest == CHOOSE i \in Dispatches : \A j \in Dispatches : j <= i
       IN TicksDispatched(clockLog) = (clockLog[latest].timestamp * 60) \div 1000

\* ------------------------------------------------------ ImageCache on its own
\* Images requested in one run, and ready functions registered.
MaxImages == 3
MaxReady == 2
\* The arrays handed to load: one url, two urls, the same url twice
UrlArrays ==
  { <<"images/terrain.png">>, <<"images/sprites.png">>,
    <<"images/terrain.png", "images/sprites.png">>,
    <<"images/sprites.png", "images/terrain.png">>,
    <<"images/terrain.png", "images/terrain.png">> }

\* A test that is satisfied by the first image loaded.
allLoadedFirst(toLoad, loaded) == loaded >= 1

\* numImagesToLoad == numImagesLoaded
allLoaded(toLoad, loaded) == toLoad = loaded

\* imageCache.get(imageToGet)
get(cache, imageToGet) == cache[imageToGet]

\* the variables the image cache does not use
cacheRest == << pc, now, nTicks, lastTickTime, currentFrameNo, playerSprite,
                enemies, bullets, explosions, keyStatusMap, keyHitTime,
                gameStartTime, scoreEventListeners, playerDestroyedListeners,
                nextId, gameOverLog, everDestroyed, obs, spr, lastOp, pool,
                poolObs, clockVars >>

\* imageCache.ready(functionToRun); the functions are numbered in the order of
\* their registration
CacheReady ==
  /\ Len(readyFunctions) < MaxReady
  /\ readyFunctions' = Append(readyFunctions, Len(readyFunctions) + 1)
  /\ UNCHANGED << imageCache, numImagesToLoad, numImagesLoaded, loading,
                  readyLog, cacheRest >>

\* imageCache.load(arrOfUrls): loadOne for each url, before any onload event;
\* the Image objects are numbered in the order of their creation
CacheLoad(arrOfUrls) ==
  /\ numImagesToLoad + Len(arrOfUrls) <= MaxImages
  /\ numImagesToLoad' = numImagesToLoad + Len(arrOfUrls)
  /\ loading' = loading \cup { [id |-> numImagesToLoad + i, url |-> arrOfUrls[i]] :
                                 i \in 1..Len(arrOfUrls) }
  /\ UNCHANGED << imageCache, readyFunctions, numImagesLoaded, readyLog,
                  cacheRest >>

\* imageToLoad.onload of one of the images being loaded
CacheOnLoad(imageToLoad) ==
  /\ imageToLoad \in loading
  /\ loading' = loading \ {imageToLoad}
  /\ imageCache' = [imageCache EXCEPT ![imageToLoad.url] = imageToLoad.id]
  /\ numImagesLoaded' = numImagesLoaded + 1
  /\ readyLog' = IF allLoaded(numImagesToLoad, numImagesLoaded + 1)
                 THEN Append(readyLog,
                             [calls |-> readyFunctions,
                              last |-> imageToLoad.id,
                              toLoad |-> numImagesToLoad,
                              loading |-> loading',
                              cache |-> imageCache'])
                 ELSE readyLog
  /\ UNCHANGED << readyFunctions, numImagesToLoad, cacheRest >>

NextCache ==
  \/ CacheReady
  \/ \E arrOfUrls \in UrlArrays : CacheLoad(arrOfUrls)
  \/ \E imageToLoad \in loading : CacheOnLoad(imageToLoad)

SpecCache == Init /\ [][NextCache]_vars

\* The urls requested so far of a cache: stored or still being loaded
Requested(cache, inFlight) ==
  {url \in Urls : cache[url] # 0} \cup {img.url : img \in inFlight}

MaxScoreOps == 3

\* removeScoreListener(listener): the first index holding the listener is
\* looked for; arrays have no split method, so the call made on finding it
\* throws a TypeError and the array stays as it is.
removeScoreListener(listeners, listener) ==
  IF \E ix \in 1..Len(listeners) : listeners[ix] = listener
  THEN [listeners |-> listeners, threw |-> TRUE]
  ELSE [listeners |-> listeners, threw |-> FALSE]

\* The calls recorded so far
ScoreOps == IF "ops" \in DOMAIN obs THEN obs.ops ELSE <<>>

RemoveScoreListener(listener) ==
  /\ Len(ScoreOps) < MaxScoreOps
  /\ \E res \in {removeScoreListener(scoreEventListeners, listener)} :
       /\ scoreEventListeners' = res.listeners
       /\ obs' = [dispatched |-> FALSE, ops |->
                    Append(ScoreOps, [op |-> "remove", listener |-> listener,
                               registered |-> listener \in SeqToSet(scoreEventListeners),
                               threw |-> res.threw, calls |-> <<>>])]
  /\ UNCHANGED << pc, now, nTicks, lastTickTime, currentFrameNo, keyStatusMap,
                  gameStartTime, playerDestroyedListeners >>
  /\ UNCHANGED engineVars
  /\ UNCHANGED benchVars

\* notifyScoreUpdate(KILL_SCORE), as the sweep calls it for a kill
NotifyScore ==
  /\ Len(ScoreOps) < MaxScoreOps
  /\ obs' = [dispatched |-> FALSE, ops |->
               Append(ScoreOps, [op |-> "notify", listener |-> 0, registered |-> FALSE,
                          threw |-> FALSE,
                          calls |-> notifyScoreUpdate(scoreEventListeners,
                                                      KILL_SCORE)])]
  /\ UNCHANGED << pc, now, nTicks, lastTickTime, currentFrameNo, keyStatusMap,
                  gameStartTime, scoreEventListeners, playerDestroyedListeners >>
  /\ UNCHANGED engineVars
  /\ UNCHANGED benchVars

NextScore ==
  \/ AddScoreListener
  \/ \E listener \in 1..MaxScoreListeners : RemoveScoreListener(listener)
  \/ NotifyScore

SpecScore == Init /\ [][NextScore]_vars

\* C32: removeScoreListener(l) for a registered listener l completes without
\* error, l receives no later score event, and every other registered
\* listener still receives each later score event exactly once.
C32_RemovedListenerSilent ==
  \A i \in 1..Len(ScoreOps) :
    (ScoreOps[i].op = "remove" /\ ScoreOps[i].registered) =>
      /\ ~ScoreOps[i].threw
      /\ \A j \in (i + 1)..Len(ScoreOps) :
           ScoreOps[j].op = "notify" =>
             /\ \A c \in 1..Len(ScoreOps[j].calls) :
                  ScoreOps[j].calls[c].listener # ScoreOps[i].listener
             /\ \A l \in SeqToSet(scoreEventListeners) \ {ScoreOps[i].listener} :
                  Cardinality({c \in 1..Len(ScoreOps[j].calls) :
                                 ScoreOps[j].calls[c].listener = l}) <= 1

\* C33: currentFrameNo counts ticks since start(): the first dispatch after
\* start() reports floor((t - tStart) / (1000/60)) elapsed ticks, tStart the
\* time at which start() was called.
C33_FirstDispatchSinceStart ==
  (clockLog # <<>> /\ clockLog[1].frames > 0) =>
    LET tStart == IF clockLog[1].passed THEN clockLog[1].previous
                  ELSE DateNow(clockLog[1].previous)
    IN /\ clockLog[1].frames = ((clockLog[1].timestamp - tStart) * 60) \div 1000
       /\ clockLog[1].frameNoAfter = clockLog[1].frames

\* ------------------------------------------------- the enemy pool's cap
\* C34: the enemy pool never holds more than MAX_ENEMIES entities, whatever
\* the elapsed time and the number of enemies removed, and every spawn brings
\* the pool to at most the cap.
C34_PoolCapped ==
  /\ Len(enemies) <= MAX_ENEMIES
  /\ \A i \in 1..Len(obs.spawns) :
       obs.spawns[i].n + obs.spawns[i].created <= MAX_ENEMIES

\* The pool is full, an enemy has left and a later addEnemies call, at full
\* level, has topped the pool up to the cap again.
C34_Witness ==
  /\ Len(enemies) = MAX_ENEMIES
  /\ obs.leaves > 0
  /\ \E i \in 1..Len(obs.spawns) :
       /\ obs.spawns[i].n = MAX_ENEMIES - 1
       /\ obs.spawns[i].created = 1
       /\ obs.spawns[i].elapsed > 19 * MS_PER_INCREMENT

\* ------------------------------------------- the player stays on the canvas
\* C35: render's off-canvas test never applies to the player, so a game step
\* leaves the player done only when that step found it colliding with an
\* enemy.
C35_PlayerDoneOnlyByCollision ==
  [][(nTicks' # nTicks /\ obs'.dispatched /\ isDone(playerSprite'))
       => (obs'.playerHits # <<>> /\ ~offCanvas(playerSprite'))]_vars

\* A step with RIGHT pressed that would have carried the player past the right
\* edge: the player stops at the edge and is not done.
C35_Witness ==
  /\ obs.dispatched
  /\ obs.keys["RIGHT"]
  /\ ~isDone(obs.playerStart)
  /\ obs.playerStart.left + MOVE_PIXELS * Scale * obs.framesElapsed
       > canvasWidth * Scale
  /\ playerSprite.left = canvasWidth * Scale - playerWidth
  /\ obs.playerHits = <<>>
  /\ ~isDone(playerSprite)

\* A step that leaves the player done, an enemy having reached it.
C35_Collision ==
  /\ obs.dispatched
  /\ obs.playerHits # <<>>
  /\ isDone(playerSprite)

\* --------------------------------------- overlap on the pairs the engine tests
\* s1 is no wider and no taller than s2, as a bullet or the player against an
\* enemy.
Fits(s1, s2) == s1.w <= s2.w /\ s1.h <= s2.h

\* C36: when s1 is no wider and no taller than s2, overlap(s1, s2) is the
\* closed-box intersection test: it misses no intersection and reports none
\* for disjoint boxes.
C36_OverlapOnSmallerFirst ==
  (poolObs.ran /\ Fits(pool[1], pool[2])) =>
    /\ (Intersect(pool[1].top, pool[1].h, pool[2].top, pool[2].h)
        /\ Intersect(pool[1].left, pool[1].w, pool[2].left, pool[2].w))
         => poolObs.s1s2
    /\ poolObs.s1s2
         => ~(\/ pool[1].top + pool[1].h < pool[2].top
              \/ pool[2].top + pool[2].h < pool[1].top
              \/ pool[1].left + pool[1].w < pool[2].left
              \/ pool[2].left + pool[2].w < pool[1].left)

\* A strictly smaller s1 that reaches into s2 from above and from the left:
\* only its bottom right corner is in s2, and overlap reports the intersection.
C36_Witness ==
  /\ poolObs.ran
  /\ pool[1].w < pool[2].w
  /\ pool[1].h < pool[2].h
  /\ pool[1].top < pool[2].top
  /\ pool[1].left < pool[2].left
  /\ pool[1].top + pool[1].h >= pool[2].top
  /\ pool[1].left + pool[1].w >= pool[2].left
  /\ poolObs.s1s2

\* A smaller s1 that lies clear of s2, for which overlap reports nothing.
C36_Disjoint ==
  /\ poolObs.ran
  /\ Fits(pool[1], pool[2])
  /\ pool[1].left + pool[1].w < pool[2].left
  /\ ~poolObs.s1s2

\* ------------------------------------------------ sprites leaving the pools
\* Ticks of one run, and the ticks a bullet or an explosion may stay in its
\* pool when every tick dispatches FlightDts' smallest number of frames.
MaxFlightTicks == 7
FlightSpan == 3
\* Milliseconds between two callbacks: 30 frames, or 185 frames
FlightDts == {510, 3090}

\* The state after init() and gameClock.start(), the first enemy in the
\* player's lane
InitFlight ==
  /\ pc = "running"
  /\ now = 0
  /\ nTicks = 0
  /\ lastTickTime = 0
  /\ currentFrameNo = 0
  /\ playerSprite = createPlayerSprite(0)
  /\ enemies = <<createEnemySprite(1, 210)>>
  /\ bullets = <<>>
  /\ explosions = <<>>
  /\ keyStatusMap = [k \in Keys |-> FALSE]
  /\ keyHitTime = [k \in Keys |-> 0]
  /\ gameStartTime = DateNow(0)
  /\ scoreEventListeners = <<>>
  /\ playerDestroyedListeners = <<>>
  /\ nextId = 2
  /\ gameOverLog = <<>>
  /\ everDestroyed = FALSE
  /\ obs = NoObs
  /\ BenchIdle

\* GameClock.clockTick(timestamp), dt milliseconds after the last callback,
\* every new enemy drawn in the player's lane
FlightTick(dt) ==
  /\ pc = "running"
  /\ nTicks < MaxFlightTicks
  /\ nTicks' = nTicks + 1
  /\ now' = now + dt
  /\ \E timestamp \in {now + dt} :
     \E frames \in {framesSinceLastTick(timestamp, lastTickTime)} :
       /\ currentFrameNo' = currentFrameNo + frames
       /\ IF frames > 0
          THEN /\ lastTickTime' = timestamp
               /\ \E rnds \in SpawnDraws(numToCreate(Len(enemies),
                                      DateNow(timestamp) - gameStartTime)) :
                    gameStep(frames, DateNow(timestamp), rnds)
          ELSE /\ obs' = NoObs
               /\ UNCHANGED lastTickTime
               /\ UNCHANGED engineVars
  /\ UNCHANGED << pc, keyStatusMap, gameStartTime, scoreEventListeners,
                  playerDestroyedListeners >>
  /\ UNCHANGED benchVars

NextFlight ==
  \/ KeyDown(32)
  \/ KeyUp(32)
  \/ \E dt \in FlightDts : FlightTick(dt)

SpecFlight == InitFlight /\ [][NextFlight]_vars

\* A callback of the clock has run: the one step of NextFlight that counts a
\* tick.
TickDispatched ==
  /\ pc = "running"
  /\ nTicks < MaxFlightTicks
  /\ nTicks' = nTicks + 1

\* The clock goes on dispatching ticks.
SpecFlightFair == SpecFlight /\ WF_nTicks(TickDispatched)

\* The identities of the bullets in the pool during the ticks C37 is about.
FlightIds == 1..(8 * (MaxFlightTicks - FlightSpan))

\* C37: every bullet is eventually removed from the bullet pool: while ticks
\* keep being dispatched, a bullet in the pool is gone from it at most
\* FlightSpan ticks later.
C37_BulletsLeave ==
  /\ [](nTicks <= MaxFlightTicks - FlightSpan => Ids(bullets) \subseteq FlightIds)
  /\ \A id \in FlightIds :
       (id \in Ids(bullets) /\ nTicks <= MaxFlightTicks - FlightSpan)
         ~> (id \notin Ids(bullets))

\* A step whose pool pass removed a bullet that had hit nothing: it had left
\* the canvas.
C37_Witness ==
  /\ obs.dispatched
  /\ obs.hits = <<>>
  /\ \E id \in Ids(obs.before.bullets) :
       /\ id \notin Ids(bullets)
       /\ ~isDone(ById(obs.before.bullets, id))

\* A step whose pool pass removed a bullet the step before had marked done
\* for hitting an enemy.
C37_HitRemoved ==
  /\ obs.dispatched
  /\ \E id \in Ids(obs.before.bullets) :
       /\ id \notin Ids(bullets)
       /\ isDone(ById(obs.before.bullets, id))

\* C38: an explosion is done once its frames have played, after
\* Len(frameSet) * frameDivisor ticks (12 frames at 15 ticks per frame), and
\* the pool pass in which it becomes done removes it: no explosion in the pool
\* has played that long.
C38_ExplosionGoneAfterPlayback ==
  \A i \in 1..Len(explosions) :
    explosions[i].clockFrame
      < Len(explosions[i].frameSet) * frameDivisor(explosions[i].fr)

\* ------------------------------------------------------- the rate of fire
\* Ticks of one run.
MaxFireTicks == 5
\* Milliseconds between two callbacks: less than a tick, and times that add up
\* to one millisecond less than KEY_REPEAT_DELAY and to KEY_REPEAT_DELAY
FireDts == {10, 100, KEY_REPEAT_DELAY - 101, KEY_REPEAT_DELAY - 100}

\* GameClock.clockTick(timestamp), dt milliseconds after the last callback;
\* lastOp keeps the wall-clock time of every volley added to the bullet pool.
FireTick(dt) ==
  /\ pc = "running"
  /\ nTicks < MaxFireTicks
  /\ nTicks' = nTicks + 1
  /\ now' = now + dt
  /\ \E timestamp \in {now + dt} :
     \E frames \in {framesSinceLastTick(timestamp, lastTickTime)} :
       /\ currentFrameNo' = currentFrameNo + frames
       /\ IF frames > 0
          THEN /\ lastTickTime' = timestamp
               /\ \E rnds \in SpawnDraws(numToCreate(Len(enemies),
                                      DateNow(timestamp) - gameStartTime)) :
                    gameStep(frames, DateNow(timestamp), rnds)
          ELSE /\ obs' = NoObs
               /\ UNCHANGED lastTickTime
               /\ UNCHANGED engineVars
  /\ lastOp' = IF obs'.dispatched /\ obs'.spawned # <<>>
               THEN Append(lastOp, [op |-> "fire", ticks |-> nTicks',
                                    time |-> DateNow(now'),
                                    added |-> Len(obs'.spawned)])
               ELSE lastOp
  /\ UNCHANGED << pc, keyStatusMap, gameStartTime, scoreEventListeners,
                  playerDestroyedListeners >>
  /\ UNCHANGED << spr, pool, poolObs, clockVars, cacheVars >>

NextFire ==
  \/ KeyDown(32)
  \/ KeyUp(32)
  \/ \E dt \in FireDts : FireTick(dt)

SpecFire == InitFlight /\ [][NextFire]_vars

C39_Refused ==
  /\ lastOp # <<>>
  /\ obs.dispatched
  /\ obs.keys["SPACE"]
  /\ ~obs.fired
  /\ obs.curTime - lastOp[Len(lastOp)].time = KEY_REPEAT_DELAY - 1

====
